---- MODULE Spec2Model ----
(***************************************************************************)
(* GeoGrapher core engine (geographer/core): points, lines, circles.       *)
(* Every engine operation is a pure function from its arguments to a       *)
(* ComputationResult or to a raised exception.  The state records the last *)
(* call made: its operation name, its arguments and its outcome.           *)
(*                                                                         *)
(* Real numbers are exact decimal rationals <<n, d, e>> = (n/d) * 10^e,    *)
(* kept canonical (d > 0, gcd(n, d) = 1, 5 divides neither n nor d), so    *)
(* that values as small as the tolerance EPS = 1e-9 and products of such   *)
(* values stay inside TLC's integers.  Square roots live in a quadratic    *)
(* extension: a surd <<p, q, N>> is p + q*sqrt(N).                         *)
(***************************************************************************)
EXTENDS Integers, Sequences, FiniteSets, TLC

VARIABLES op, args, res

vars == <<op, args, res>>

----------------------------------------------------------------------------
(* Integer helpers *)

IAbs(i) == IF i < 0 THEN -i ELSE i

RECURSIVE GCD(_, _)
GCD(a, b) == IF b = 0 THEN a ELSE GCD(b, a % b)

RECURSIVE Pow10(_)
Pow10(k) == IF k <= 0 THEN 1 ELSE 10 * Pow10(k - 1)

RECURSIVE Digits(_)
Digits(n) == IF n < 10 THEN 1 ELSE 1 + Digits(n \div 10)

IMin(a, b) == IF a <= b THEN a ELSE b

RECURSIVE ISqrtIn(_, _, _)
ISqrtIn(n, lo, hi) ==
    IF lo >= hi THEN lo
    ELSE LET mid == (lo + hi) \div 2
         IN  IF mid * mid >= n THEN ISqrtIn(n, lo, mid) ELSE ISqrtIn(n, mid + 1, hi)

\* The least k with k*k >= n (k*k stays inside 32 bits).
ISqrt(n) == ISqrtIn(n, 0, IMin(n, 46340))

IsSquareInt(n) == n >= 0 /\ \E k \in {ISqrt(n)} : k * k = n

----------------------------------------------------------------------------
(* Exact decimal rationals: the values of Python floats *)

\* Factors of 5 are moved out of n and d into the exponent: 5 = (1/2) * 10.
RECURSIVE Clear5(_)
Clear5(c) ==
    IF c[1] % 5 = 0 THEN Clear5(<<c[1] \div 5, 2 * c[2], c[3] + 1>>)
    ELSE IF c[2] % 5 = 0 THEN Clear5(<<2 * c[1], c[2] \div 5, c[3] - 1>>)
    ELSE c

Over(c, g) == <<c[1] \div g, c[2] \div g, c[3]>>

\* (n/d) * 10^e in lowest terms, d > 0.
Lowest(c) == Over(c, GCD(IAbs(c[1]), c[2]))

\* The canonical form of (n/d) * 10^e, d # 0.
Num(n, d, e) ==
    IF n = 0 THEN <<0, 1, 0>>
    ELSE Lowest(Clear5(Lowest(<<IF d < 0 THEN -n ELSE n, IAbs(d), e>>)))

NInt(i) == Num(i, 1, 0)

Zero == <<0, 1, 0>>
One == <<1, 1, 0>>

NSign(a) == IF a[1] > 0 THEN 1 ELSE IF a[1] < 0 THEN -1 ELSE 0

NNeg(a) == <<-a[1], a[2], a[3]>>

NAbs(a) == <<IAbs(a[1]), a[2], a[3]>>

NAdd(a, b) ==
    IF a[1] = 0 THEN b
    ELSE IF b[1] = 0 THEN a
    ELSE
    LET e == IMin(a[3], b[3])
        g == GCD(a[2], b[2])
    IN  Num(a[1] * Pow10(a[3] - e) * (b[2] \div g) + b[1] * Pow10(b[3] - e) * (a[2] \div g),
            (a[2] \div g) * b[2], e)

NSub(a, b) == NAdd(a, NNeg(b))

\* The cross factors are cancelled before multiplying.
NMul(a, b) ==
    LET g1 == GCD(IAbs(a[1]), b[2])
        g2 == GCD(IAbs(b[1]), a[2])
    IN  Num((a[1] \div g1) * (b[1] \div g2), (a[2] \div g2) * (b[2] \div g1),
            a[3] + b[3])

NSq(a) == NMul(a, a)

\* 1 / b for b # 0: the canonical form is closed under inversion.
NInv(b) == IF b[1] < 0 THEN <<-b[2], -b[1], -b[3]>> ELSE <<b[2], b[1], -b[3]>>

\* a / b for b # 0; the callers guard the zero divisor.
NDiv(a, b) == NMul(a, NInv(b))

\* Order of magnitude: log10(a) lies strictly between NOrd(a)-1 and NOrd(a)+1.
NOrd(a) == a[3] + Digits(IAbs(a[1])) - Digits(a[2])

\* Comparison of two positive values: -1, 0 or 1.
MagCmp(a, b) ==
    IF a = b THEN 0
    ELSE IF NOrd(a) - NOrd(b) >= 2 THEN 1
    ELSE IF NOrd(b) - NOrd(a) >= 2 THEN -1
    ELSE LET e == IMin(a[3], b[3])
             g == GCD(a[2], b[2])
             h == GCD(a[1], b[1])
             l == (a[1] \div h) * Pow10(a[3] - e) * (b[2] \div g)
             r == (b[1] \div h) * Pow10(b[3] - e) * (a[2] \div g)
         IN  IF l < r THEN -1 ELSE IF l > r THEN 1 ELSE 0

NCmp(a, b) ==
    IF a = b THEN 0
    ELSE IF NSign(a) # NSign(b) THEN (IF NSign(a) < NSign(b) THEN -1 ELSE 1)
    ELSE NSign(a) * MagCmp(NAbs(a), NAbs(b))

NLeq(a, b) == NCmp(a, b) <= 0
NLt(a, b) == NCmp(a, b) < 0

\* sqrt of a rational that is a perfect square.  In canonical form only the
\* exponent holds factors of 5, so e is even and n and d are squares.
NIsSquare(a) == a[1] >= 0 /\ a[3] % 2 = 0 /\ IsSquareInt(a[1]) /\ IsSquareInt(a[2])

NRoot(a) == <<ISqrt(a[1]), ISqrt(a[2]), a[3] \div 2>>

----------------------------------------------------------------------------
(* Reals with one square root: <<p, q, N>> is p + q*sqrt(N), N not a square;
   a rational has q = Zero and N = Zero.  One computation uses one radicand. *)

RNorm(p, q, N) == IF q = Zero THEN <<p, Zero, Zero>> ELSE <<p, q, N>>

Rat(p) == <<p, Zero, Zero>>

R(i) == Rat(NInt(i))

\* numpy's inf/nan, the value of a float64 division by zero.
NonFinite == <<Zero, Zero, NNeg(One)>>

IsFinite(a) == a # NonFinite

IsRational(a) == a[2] = Zero

Rad(a, b) == IF a[2] # Zero THEN a[3] ELSE b[3]

RNeg(a) == <<NNeg(a[1]), NNeg(a[2]), a[3]>>

RAdd(a, b) == RNorm(NAdd(a[1], b[1]), NAdd(a[2], b[2]), Rad(a, b))

RSub(a, b) == RAdd(a, RNeg(b))

RMulIn(a, b, N) ==
    RNorm(NAdd(NMul(a[1], b[1]), NMul(NMul(a[2], b[2]), N)),
          NAdd(NMul(a[1], b[2]), NMul(a[2], b[1])), N)

RMul(a, b) == RMulIn(a, b, Rad(a, b))

\* num / den for a rational den # 0.
ROver(num, den, N) == RNorm(NDiv(num[1], den), NDiv(num[2], den), N)

\* a / b for b # 0: multiply by the conjugate of b.
RDiv(a, b) ==
    ROver(RMul(a, <<b[1], NNeg(b[2]), b[3]>>),
          NSub(NSq(b[1]), NMul(NSq(b[2]), Rad(a, b))), Rad(a, b))

\* The sign of p + q*sqrt(N) from the signs sp of p and sq of q.
SurdSign(sp, sq, a) ==
    IF sq = 0 THEN sp
    ELSE IF sp = 0 \/ sp = sq THEN sq
    ELSE sp * NCmp(NSq(a[1]), NMul(NSq(a[2]), a[3]))

RSign(a) == SurdSign(NSign(a[1]), NSign(a[2]), a)

RAbs(a) == IF RSign(a) < 0 THEN RNeg(a) ELSE a

\* Whether p and b are four or more orders of magnitude apart.
Far(p, b) ==
    /\ p # Zero
    /\ b # Zero
    /\ \E o \in {NOrd(NAbs(p)) - NOrd(NAbs(b))} : o >= 4 \/ o <= -4

\* The one of p and b that is larger in magnitude.
Larger(p, b) == IF MagCmp(NAbs(p), NAbs(b)) >= 0 THEN p ELSE b

\* L2 = L^2 against M where (p - b)^2 is within 1% of L^2; 0 on a near tie.
FarCmp(L2, M) ==
    IF NLt(M, NMul(<<98, 1, -2>>, L2)) THEN 1
    ELSE IF NLt(NMul(<<103, 1, -2>>, L2), M) THEN -1
    ELSE 0

\* (p - b)^2 against M >= 0: -1, 0 or 1.  When p and b are four or more
\* orders of magnitude apart the difference is within 1% of the larger one,
\* which decides every case but a near tie.
SqDiffCmp(p, b, M) ==
    LET Decide(c) == IF c # 0 THEN c ELSE NCmp(NSq(NSub(p, b)), M)
    IN  Decide(IF Far(p, b) THEN FarCmp(NSq(Larger(p, b)), M) ELSE 0)

\* a against the rational b from the comparison sp of the rational parts and
\* the sign sq of the surd part of a.
SurdCmp(sp, sq, a, b) ==
    IF sq = 0 THEN sp
    ELSE IF sp = 0 \/ sp = sq THEN sq
    ELSE sp * SqDiffCmp(a[1], b[1], NMul(NSq(a[2]), a[3]))

\* a against b: -1, 0 or 1.
RCmp(a, b) ==
    IF b[2] # Zero THEN RSign(RSub(a, b))
    ELSE SurdCmp(NCmp(a[1], b[1]), NSign(a[2]), a, b)

RLeq(a, b) == RCmp(a, b) <= 0

RLt(a, b) == RCmp(a, b) < 0

RSq(a) == RMul(a, a)

\* sqrt of a rational x >= 0.
RSqrt(x) ==
    IF NIsSquare(x[1]) THEN Rat(NRoot(x[1])) ELSE <<Zero, One, x[1]>>

\* Whether sqrt of the rational x lies in the field of sqrt(N).
RootIn(x, N) == NIsSquare(x[1]) \/ (N # Zero /\ NIsSquare(NDiv(x[1], N)))

\* sqrt of the rational x written with the radicand N.
RSqrtIn(x, N) ==
    IF NIsSquare(x[1]) THEN Rat(NRoot(x[1]))
    ELSE <<Zero, NRoot(NDiv(x[1], N)), N>>

----------------------------------------------------------------------------
(* utils.py: the tolerance and the result envelope *)

\* EPS = 1e-9
EPS == <<<<1, 1, -9>>, Zero, Zero>>

\* abs(x) <= EPS
WithinEps(x) == RLeq(RAbs(x), EPS)

\* A ComputationResult (steps, which are explanatory strings, are left out;
\* a PlotElement is its type and data, without the style hints).
Result(status, name, payload, plot, warnings) ==
    [status |-> status, op |-> name, payload |-> payload, plot |-> plot,
     warnings |-> warnings, exc |-> "none"]

\* The call did not return: it raised exception exc.
Raised(exc) ==
    [status |-> "raised", op |-> "", payload |-> << >>, plot |-> << >>,
     warnings |-> {}, exc |-> exc]

\* No call has been made.
NoResult ==
    [status |-> "none", op |-> "", payload |-> << >>, plot |-> << >>,
     warnings |-> {}, exc |-> "none"]

PlotElement(type, data) == [type |-> type, data |-> data]

----------------------------------------------------------------------------
(* points.py *)

Point(x, y, label) == [x |-> x, y |-> y, label |-> label]

as_tuple(p) == <<p.x, p.y>>

OrLabel(label, default) == IF label = "" THEN default ELSE label

_point_payload(point) ==
    IF point.label = "" THEN [x |-> point.x, y |-> point.y]
    ELSE [x |-> point.x, y |-> point.y, label |-> point.label]

_point_element(point) ==
    PlotElement("point",
        IF point.label = "" THEN [coords |-> as_tuple(point)]
        ELSE [coords |-> as_tuple(point), label |-> point.label])

\* section_point with the internal numerator subtracting where the code adds.
SectionSignSlip(point_a, point_b, ratio, external) ==
    LET m == ratio[1]
        n == ratio[2]
        den == IF external THEN RSub(m, n) ELSE RAdd(m, n)
    IN  IF den = R(0) THEN Raised("ZeroDivisionError")
        ELSE LET px == RDiv(RSub(RMul(m, point_a.x), RMul(n, point_b.x)), den)
                 py == RDiv(RSub(RMul(m, point_a.y), RMul(n, point_b.y)), den)
             IN  Result("ok", "section_point",
                        [point |-> _point_payload(Point(px, py, "P"))], << >>, {})

\* section_point with the weights of the two end points exchanged.
SectionWeightsSwapped(point_a, point_b, ratio, external) ==
    LET m == ratio[1]
        n == ratio[2]
        den == IF external THEN RSub(m, n) ELSE RAdd(m, n)
    IN  IF den = R(0) THEN Raised("ZeroDivisionError")
        ELSE LET px == RDiv(RAdd(RMul(n, point_a.x), RMul(m, point_b.x)), den)
                 py == RDiv(RAdd(RMul(n, point_a.y), RMul(m, point_b.y)), den)
             IN  Result("ok", "section_point",
                        [point |-> _point_payload(Point(px, py, "P"))], << >>, {})

\* The result envelope of section_point for the computed point.
SectionResult(point_a, point_b, section, external) ==
    Result("ok",
           IF external THEN "section_point_external" ELSE "section_point",
           [point |-> _point_payload(section)],
           <<_point_element(point_a), _point_element(point_b),
             _point_element(section),
             PlotElement("segment", [from |-> as_tuple(point_a),
                                     to |-> as_tuple(point_b)])>>,
           {})

section_point(point_a, point_b, ratio, external) ==
    LET m == ratio[1]
        n == ratio[2]
        Divided(den) ==
            IF den = R(0) THEN Raised("ZeroDivisionError")
            ELSE SectionResult(point_a, point_b,
                     Point(IF external
                           THEN RDiv(RSub(RMul(m, point_a.x), RMul(n, point_b.x)), den)
                           ELSE RDiv(RAdd(RMul(m, point_a.x), RMul(n, point_b.x)), den),
                           IF external
                           THEN RDiv(RSub(RMul(m, point_a.y), RMul(n, point_b.y)), den)
                           ELSE RDiv(RAdd(RMul(m, point_a.y), RMul(n, point_b.y)), den),
                           IF external THEN "P_ext" ELSE "P"),
                     external)
    IN  Divided(IF external THEN RSub(m, n) ELSE RAdd(m, n))

----------------------------------------------------------------------------
(* lines.py: the Line value and its constructors *)

\* Python's None.
None == << >>

\* A Line; np tells that its coefficients are numpy float64 values, whose
\* division by zero yields inf or nan instead of raising.
Line(A, B, C, label) == [A |-> A, B |-> B, C |-> C, label |-> label, np |-> FALSE]

NpLine(A, B, C, label) == [A |-> A, B |-> B, C |-> C, label |-> label, np |-> TRUE]

IsRaised(v) == "exc" \in DOMAIN v /\ v.exc # "none"

\* The Line invariant of the data model: A and B are not both within EPS of zero.
LineInvariant(l) == ~(WithinEps(l.A) /\ WithinEps(l.B))

from_points(p1, p2, label) ==
    IF as_tuple(p1) = as_tuple(p2) THEN Raised("ValueError")
    ELSE Line(RSub(p1.y, p2.y), RSub(p2.x, p1.x),
              RSub(RMul(p1.x, p2.y), RMul(p2.x, p1.y)), label)

from_slope_intercept(slope, intercept, label) ==
    IF IsFinite(slope) THEN Line(slope, R(-1), intercept, label)
    ELSE Line(R(1), R(0), RNeg(intercept), label)

from_general(A, B, C, label) ==
    IF WithinEps(A) /\ WithinEps(B) THEN Raised("ValueError")
    ELSE Line(A, B, C, label)

\* np.hypot(A, B), written with the radicand N.
hypot(A, B, N) == RSqrtIn(RAdd(RSq(A), RSq(B)), N)

\* The radicand of np.hypot(l.A, l.B): Zero when the norm is rational.
NormRadicand(l) ==
    LET Radicand(n2) == IF NIsSquare(n2[1]) THEN Zero ELSE n2[1]
    IN  Radicand(RAdd(RSq(l.A), RSq(l.B)))

\* Line.normalized once the norm is known.
NormalizedBy(l, norm) ==
    IF RLeq(norm, EPS) THEN Raised("ValueError")
    ELSE NpLine(RDiv(l.A, norm), RDiv(l.B, norm), RDiv(l.C, norm), l.label)

normalizedIn(l, N) == NormalizedBy(l, hypot(l.A, l.B, N))

normalized(l) == NormalizedBy(l, RSqrt(RAdd(RSq(l.A), RSq(l.B))))

slope(l) == IF WithinEps(l.B) THEN None ELSE RDiv(RNeg(l.A), l.B)

intercept(l) == IF WithinEps(l.B) THEN None ELSE RDiv(RNeg(l.C), l.B)

x_intercept(l) == IF WithinEps(l.A) THEN None ELSE RDiv(RNeg(l.C), l.A)

\* sample_points divides by A on a vertical line: Python floats raise
\* ZeroDivisionError on A = 0, numpy float64 values give inf or nan.
SampleRaises(l) == WithinEps(l.B) /\ l.A = R(0) /\ ~l.np

\* The two points of a vertical line at abscissa x.
VerticalSamples(x) == <<Point(x, R(0), ""), Point(x, R(1), "")>>

sample_points(l) ==
    IF WithinEps(l.B)
    THEN VerticalSamples(IF l.A = R(0) THEN NonFinite ELSE RDiv(RNeg(l.C), l.A))
    ELSE <<Point(R(0), RDiv(RNeg(l.C), l.B), ""),
           Point(R(1), RDiv(RSub(RNeg(l.C), l.A), l.B), "")>>

WithLabel(rec, l) == IF l.label = "" THEN rec ELSE [label |-> l.label] @@ rec

display(l) ==
    LET Data(slope_value) ==
            IF slope_value # None
            THEN [slope |-> slope_value, y_intercept |-> intercept(l)]
                 @@ WithLabel([A |-> l.A, B |-> l.B, C |-> l.C], l)
            ELSE [vertical |-> TRUE, x_intercept |-> x_intercept(l)]
                 @@ WithLabel([A |-> l.A, B |-> l.B, C |-> l.C], l)
    IN  Data(slope(l))

\* The plot element of a line drawn between the two sample points.
SegmentPlot(samples, label) ==
    PlotElement("line", [from |-> as_tuple(samples[1]), to |-> as_tuple(samples[2]),
                         label |-> label])

LinePlot(l, default) == SegmentPlot(sample_points(l), OrLabel(l.label, default))

line_from_points(p1, p2) ==
    LET Through(line) ==
            IF IsRaised(line) THEN line
            ELSE IF SampleRaises(line) THEN Raised("ZeroDivisionError")
            ELSE Result("ok", "line_from_points", [line |-> display(line)],
                        <<LinePlot(line, "l"),
                          PlotElement("point", [coords |-> as_tuple(p1),
                                                label |-> OrLabel(p1.label, "A")]),
                          PlotElement("point", [coords |-> as_tuple(p2),
                                                label |-> OrLabel(p2.label, "B")])>>,
                        {})
    IN  Through(from_points(p1, p2, "l"))

----------------------------------------------------------------------------
(* lines.py: the operations *)

IsVertical(l) == WithinEps(l.B)

\* Line.as_sympy.  A vertical line builds sympy's Line(Point2D(x, 0),
\* slope=None); sympy's Line2D wants a second point or a slope that is not
\* None and raises ValueError.  Any other line is built from its equation.
as_sympy(l) ==
    IF IsVertical(l)
    THEN (IF l.A = R(0) THEN Raised("ZeroDivisionError") ELSE Raised("ValueError"))
    ELSE [a |-> l.A, b |-> l.B, c |-> l.C]

Det(s1, s2) == RSub(RMul(s1.a, s2.b), RMul(s2.a, s1.b))

\* sympy's Line.intersection for the determinant det of the two equations.
IntersectionBy(s1, s2, det) ==
    IF det = R(0)
    THEN IF RSub(RMul(s1.a, s2.c), RMul(s2.a, s1.c)) = R(0)
            /\ RSub(RMul(s1.b, s2.c), RMul(s2.b, s1.c)) = R(0)
         THEN [kind |-> "line"]
         ELSE [kind |-> "empty"]
    ELSE [kind |-> "point",
          x |-> RDiv(RSub(RMul(s1.b, s2.c), RMul(s2.b, s1.c)), det),
          y |-> RDiv(RSub(RMul(s2.a, s1.c), RMul(s1.a, s2.c)), det)]

\* sympy's Line.intersection: the same line gives a list holding a line,
\* parallel lines the empty list, other lines a list holding their point.
SymIntersection(s1, s2) == IntersectionBy(s1, s2, Det(s1, s2))

\* intersection once both sympy lines are built.
IntersectionOf(line1, line2, point) ==
    IF point.kind = "empty"
    THEN Result("warning", "intersection",
                [message |-> "Lines are parallel or coincident"],
                << >>, {"parallel_lines"})
    \* a non-empty list whose element is a line: point[0].x fails
    ELSE IF point.kind = "line" THEN Raised("AttributeError")
    ELSE Result("ok", "intersection", [point |-> <<point.x, point.y>>],
                <<LinePlot(line1, "l1"), LinePlot(line2, "l2"),
                  PlotElement("point", [coords |-> <<point.x, point.y>>,
                                        label |-> "I"])>>,
                {})

intersection(line1, line2) ==
    LET Meet(sym_line1, sym_line2) ==
            IF IsRaised(sym_line1) THEN sym_line1
            ELSE IF IsRaised(sym_line2) THEN sym_line2
            ELSE IntersectionOf(line1, line2, SymIntersection(sym_line1, sym_line2))
    IN  Meet(as_sympy(line1), as_sympy(line2))

\* An angle in degrees: 90, or degrees(atan2(tan, 1)) for a tangent tan >= 0.
Angle(deg90, tan) == [deg90 |-> deg90, tan |-> tan]

\* The angle from the two slopes; den is 1 + m1*m2 when both are defined.
AngleOf(m1, m2, den) ==
    IF m1 = None /\ m2 = None THEN Angle(FALSE, R(0))
    ELSE IF m1 = None \/ m2 = None THEN Angle(TRUE, R(0))
    ELSE Angle(FALSE, RAbs(RDiv(RSub(m2, m1), den)))

\* The result envelope of angle_between_lines; inner is the intersection
\* computed for the vertex, when the angle is neither 0 nor 90.
AngleResult(line1, line2, angle, inner) ==
    IF IsRaised(inner) THEN inner
    ELSE Result("ok", "angle_between_lines", [angle_degrees |-> angle],
                <<PlotElement("angle",
                    [line1 |-> as_tuple(sample_points(line1)[1]),
                     line2 |-> as_tuple(sample_points(line2)[1]),
                     vertex |-> IF "point" \in DOMAIN inner.payload
                                THEN inner.payload.point ELSE None,
                     value |-> angle])>>,
                {})

angle_between_lines(line1, line2) ==
    LET WithAngle(angle) ==
            AngleResult(line1, line2, angle,
                IF angle \notin {Angle(FALSE, R(0)), Angle(TRUE, R(0))}
                THEN intersection(line1, line2)
                ELSE Result("ok", "intersection", << >>, << >>, {}))
        WithDen(m1, m2, den) ==
            IF den # None /\ den = R(0) THEN Raised("ZeroDivisionError")
            ELSE WithAngle(AngleOf(m1, m2, den))
        WithSlopes(m1, m2) ==
            WithDen(m1, m2, IF m1 = None \/ m2 = None THEN None
                            ELSE RAdd(R(1), RMul(m1, m2)))
    IN  WithSlopes(slope(line1), slope(line2))

\* foot_of_perpendicular with the projection applied to the caller's
\* coefficients as if they were normalized, without the internal normalization.
FootAssumesNormalized(line, point) ==
    LET A == line.A
        B == line.B
        C == line.C
        foot_x == RSub(RMul(B, RSub(RMul(B, point.x), RMul(A, point.y))), RMul(A, C))
        foot_y == RSub(RMul(A, RAdd(RMul(RNeg(B), point.x), RMul(A, point.y))),
                       RMul(B, C))
    IN  Result("ok", "foot_of_perpendicular", [point |-> <<foot_x, foot_y>>],
               <<PlotElement("point", [coords |-> <<foot_x, foot_y>>, label |-> "F"])>>,
               {})

\* The result envelope of foot_of_perpendicular.
FootResult(foot_point) ==
    Result("ok", "foot_of_perpendicular",
           [point |-> as_tuple(foot_point)],
           <<PlotElement("point", [coords |-> as_tuple(foot_point),
                                   label |-> "F"])>>,
           {})

\* The foot from the normalized coefficients; den is A^2 + B^2.
FootPoint(A, B, C, point, den) ==
    Point(RDiv(RSub(RMul(B, RSub(RMul(B, point.x), RMul(A, point.y))),
                    RMul(A, C)), den),
          RDiv(RSub(RMul(A, RAdd(RMul(RNeg(B), point.x), RMul(A, point.y))),
                    RMul(B, C)), den),
          "F")

foot_of_perpendicular(line, point) ==
    LET Project(nl) ==
            IF IsRaised(nl) THEN nl
            ELSE FootResult(FootPoint(nl.A, nl.B, nl.C, point,
                                      RAdd(RSq(nl.A), RSq(nl.B))))
    IN  Project(normalized(line))

\* numpy division: a zero norm gives inf or nan, not an exception.
NpDiv(numerator, denominator) ==
    IF denominator = R(0) THEN NonFinite ELSE RDiv(numerator, denominator)

\* The result envelope of distance_from_point.
DistanceResult(line, point, distance, foot) ==
    IF IsRaised(foot) THEN foot
    ELSE Result("ok", "distance_point_line", [distance |-> distance],
                <<LinePlot(line, "l"),
                  PlotElement("point", [coords |-> as_tuple(point),
                                        label |-> OrLabel(point.label, "P")])>>
                \o (IF foot.status = "ok"
                    THEN <<PlotElement("point", [coords |-> foot.payload.point,
                                                 label |-> "F"]),
                           PlotElement("segment", [from |-> as_tuple(point),
                                                   to |-> foot.payload.point])>>
                    ELSE << >>),
                {})

distance_from_point(line, point) ==
    DistanceResult(line, point,
        NpDiv(RAbs(RAdd(RAdd(RMul(line.A, point.x), RMul(line.B, point.y)), line.C)),
              RSqrt(RAdd(RSq(line.A), RSq(line.B)))),
        foot_of_perpendicular(line, point))

\* The radicand in which both norms of a pair of lines can be written.
PairRadicand(line1, line2) ==
    LET Pick(N1) == IF N1 # Zero THEN N1 ELSE NormRadicand(line2)
    IN  Pick(NormRadicand(line1))

\* The result envelope of angle_bisectors.
BisectorsResult(bisector1, bisector2) ==
    Result("ok", "angle_bisectors",
           [internal |-> display(bisector1), external |-> display(bisector2)],
           <<LinePlot(bisector1, "bisector1"), LinePlot(bisector2, "bisector2")>>,
           {})

\* angle_bisectors once both lines are normalized.
BisectorsOf(l1, l2) ==
    IF IsRaised(l1) THEN l1
    ELSE IF IsRaised(l2) THEN l2
    ELSE BisectorsResult(
             NpLine(RAdd(l1.A, l2.A), RAdd(l1.B, l2.B), RAdd(l1.C, l2.C), "bisector1"),
             NpLine(RSub(l1.A, l2.A), RSub(l1.B, l2.B), RSub(l1.C, l2.C), "bisector2"))

angle_bisectors(line1, line2) ==
    LET In(N) == BisectorsOf(normalizedIn(line1, N), normalizedIn(line2, N))
    IN  In(PairRadicand(line1, line2))

----------------------------------------------------------------------------
(* circles.py *)

Circle(center, radius, label) == [center |-> center, radius |-> radius, label |-> label]

from_center_radius(center, radius, label) ==
    IF RLeq(radius, R(0)) THEN Raised("ValueError")
    ELSE Circle(center, radius, label)

\* Circle.from_general_form(A, B, C, D, E): A and B are the coefficients of x^2
\* and y^2, D and E those of x and y, and C is the constant term.
from_general_form(A, B, C, D, E, label) ==
    LET Rooted(r_sq) ==
            IF RLeq(r_sq, R(0)) THEN Raised("ValueError")
            ELSE Circle(Point(RDiv(RNeg(D), RMul(R(2), A)), RDiv(RNeg(E), RMul(R(2), A)), "O"),
                        RSqrt(r_sq), OrLabel(label, "o"))
    IN  IF RLt(RAbs(A), EPS) \/ RLt(EPS, RAbs(RSub(A, B))) THEN Raised("ValueError")
        ELSE Rooted(RSub(RDiv(RAdd(RSq(D), RSq(E)), RMul(R(4), RSq(A))), RDiv(C, A)))

\* streamlit_app._circle_input: the circle is built from the two inputs
\* directly; st.number_input keeps the radius at or above min_value = 0.0.
_circle_input(label, center, radius) == Circle(Point(center[1], center[2], label), radius, "")

Dist2(p, q) == RAdd(RSq(RSub(p.x, q.x)), RSq(RSub(p.y, q.y)))

\* sympy's Line through two points, and its coefficients property: a vertical
\* line is (1, 0, -x), a horizontal one (0, 1, -y), any other line
\* (y1 - y2, x2 - x1, x1*y2 - y1*x2).
SymLine(p1, p2) == [p1 |-> p1, p2 |-> p2]

Coefficients(sl) ==
    IF sl.p1.x = sl.p2.x THEN <<R(1), R(0), RNeg(sl.p1.x)>>
    ELSE IF sl.p1.y = sl.p2.y THEN <<R(0), R(1), RNeg(sl.p1.y)>>
    ELSE <<RSub(sl.p1.y, sl.p2.y), RSub(sl.p2.x, sl.p1.x),
           RSub(RMul(sl.p1.x, sl.p2.y), RMul(sl.p1.y, sl.p2.x))>>

\* The touching points c + k*v -/+ h*perp(v), v = p - c.
TouchPoints(c, kx, ky, hx, hy) ==
    <<Point(RSub(RAdd(c.x, kx), hy), RAdd(RAdd(c.y, ky), hx), ""),
      Point(RAdd(RAdd(c.x, kx), hy), RSub(RAdd(c.y, ky), hx), "")>>

\* The touching points for the factors k = r^2/d^2 and h = r*sqrt(d^2-r^2)/d^2.
TouchPointsBy(c, vx, vy, k, h) ==
    TouchPoints(c, RMul(k, vx), RMul(k, vy), RMul(h, vx), RMul(h, vy))

\* The two points where the tangents from an outside point p touch the
\* circle; r2 is the squared radius and d2 the squared distance of p.
TangentPoints(circle, p, r2, d2) ==
    TouchPointsBy(circle.center,
                  RSub(p.x, circle.center.x), RSub(p.y, circle.center.y),
                  RDiv(r2, d2),
                  RDiv(RMul(circle.radius, RSqrt(RSub(d2, r2))), d2))

Shift(p, dx, dy) == Point(RAdd(p.x, dx), RAdd(p.y, dy), "")

\* The touching points the solver finds: it loses a vertical tangent, and
\* first is its order of the solutions.
Found(tp, p, first) ==
    IF tp[1].x = p.x THEN <<tp[2]>>
    ELSE IF tp[2].x = p.x THEN <<tp[1]>>
    ELSE IF first = 1 THEN tp ELSE <<tp[2], tp[1]>>

\* The tangents through the touching points found, the lost one put back.
TangentsThrough(found, p) ==
    IF Len(found) = 1
    THEN IF found[1].x = p.x \/ found[1].y = p.y
         THEN <<SymLine(p, Shift(p, R(1), R(0))),
                SymLine(p, Shift(p, R(0), R(1)))>>
         ELSE <<SymLine(p, Shift(p, R(0), R(1))), SymLine(p, found[1])>>
    ELSE <<SymLine(p, found[1]), SymLine(p, found[2])>>

\* tangent_lines for the squared radius r2 and the squared distance d2.
TangentLinesBy(circle, p, first, r2, d2) ==
    IF RLt(d2, r2) THEN << >>
    ELSE IF d2 = r2
    THEN <<SymLine(p, Shift(p, RNeg(RMul(r2, RSub(circle.center.y, p.y))),
                               RMul(r2, RSub(circle.center.x, p.x))))>>
    ELSE TangentsThrough(Found(TangentPoints(circle, p, r2, d2), p, first), p)

\* sympy's Ellipse.tangent_lines on a circle.  A point the circle encloses has
\* no tangent; a point of the circle has the tangent through p and
\* p + (-r^2*dy, r^2*dx), (dx, dy) = center - p; an outside point has two,
\* found by solving for the tangent points, where a vertical tangent is lost
\* by the solver and put back.  first is the solver's order of the solutions.
tangent_lines(circle, p, first) ==
    TangentLinesBy(circle, p, first, RSq(circle.radius), Dist2(p, circle.center))

TangentLabel(idx) == IF idx = 1 THEN "t1" ELSE "t2"

\* Line.from_general on the coefficients of a sympy line.
FromCoefficients(coeffs, label) == from_general(coeffs[1], coeffs[2], coeffs[3], label)

TangentLine(sl, idx) == FromCoefficients(Coefficients(sl), TangentLabel(idx))

\* tangents_from_external_point once the Line values are built.
TangentsResult(circle, point, built) ==
    IF \E idx \in DOMAIN built : IsRaised(built[idx]) THEN Raised("ValueError")
    ELSE Result("ok", "tangents_from_point",
                [tangents |-> [idx \in DOMAIN built |-> display(built[idx])]],
                <<PlotElement("circle", [center |-> as_tuple(circle.center),
                                         radius |-> circle.radius]),
                  PlotElement("point", [coords |-> as_tuple(point),
                                        label |-> OrLabel(point.label, "P")])>>
                \o [idx \in DOMAIN built |-> LinePlot(built[idx], built[idx].label)],
                {})

tangents_from_external_point(circle, point, first) ==
    LET Tangents(tangent_lines_) ==
            IF tangent_lines_ = << >>
            THEN Result("warning", "tangents_from_point",
                        [message |-> "Point lies inside the circle"], << >>,
                        {"no_tangent"})
            ELSE TangentsResult(circle, point,
                     [idx \in 1..Len(tangent_lines_) |->
                         TangentLine(tangent_lines_[idx], idx)])
    IN  Tangents(tangent_lines(circle, point, first))

\* The points (F.x - dx, F.y + dy) and (F.x + dx, F.y - dy) in sympy's
\* order of the solutions: by abscissa, then by ordinate.
ChordEnds(F, dx, dy) ==
    IF RLt(dx, R(0)) \/ (dx = R(0) /\ RLt(R(0), dy))
    THEN <<Point(RAdd(F.x, dx), RSub(F.y, dy), ""), Point(RSub(F.x, dx), RAdd(F.y, dy), "")>>
    ELSE <<Point(RSub(F.x, dx), RAdd(F.y, dy), ""), Point(RAdd(F.x, dx), RSub(F.y, dy), "")>>

\* The real solutions around the foot F of the centre on the line, for the
\* discriminant disc = r^2*(a^2 + b^2) - (a*h + b*k + c)^2 and
\* root = sqrt(disc)/(a^2 + b^2).
MeetsAt(F, a, b, disc, root) ==
    IF RLt(disc, R(0)) THEN << >>
    ELSE IF disc = R(0) THEN <<F>>
    ELSE ChordEnds(F, RMul(b, root), RMul(a, root))

\* n2 = a^2 + b^2, d0 = a*h + b*k + c.
MeetsBy(circle, a, b, n2, d0) ==
    LET Around(disc) ==
            MeetsAt(Point(RSub(circle.center.x, RDiv(RMul(a, d0), n2)),
                          RSub(circle.center.y, RDiv(RMul(b, d0), n2)), ""),
                    a, b, disc,
                    IF RLt(disc, R(0)) THEN R(0) ELSE RDiv(RSqrt(disc), n2))
    IN  Around(RSub(RMul(RSq(circle.radius), n2), RSq(d0)))

\* sympy's Circle.intersection with the line a*x + b*y + c = 0: the real
\* solutions of the two equations, none, one or two points.
LineMeets(circle, a, b, c) ==
    MeetsBy(circle, a, b, RAdd(RSq(a), RSq(b)),
            RAdd(RAdd(RMul(a, circle.center.x), RMul(b, circle.center.y)), c))

\* The point elements P1, P2 of an intersection plot.
PointPlots(coords) ==
    [idx \in DOMAIN coords |->
        PlotElement("point", [coords |-> coords[idx],
                              label |-> IF idx = 1 THEN "P1" ELSE "P2"])]

CirclePlot(circle) ==
    PlotElement("circle", [center |-> as_tuple(circle.center), radius |-> circle.radius])

\* The result of an intersection with a circle; points is sympy's list and
\* front the plot elements of the two curves.
MeetResult(name, points, front) ==
    IF points = << >>
    THEN Result("warning", name, [message |-> "No real intersection"], << >>,
                {"no_real_intersection"})
    ELSE Result("ok", name, [points |-> [idx \in DOMAIN points |-> as_tuple(points[idx])]],
                front \o PointPlots([idx \in DOMAIN points |-> as_tuple(points[idx])]),
                {})

\* The plot element of the line in line_circle_intersection: it has no label.
BareLinePlot(samples) ==
    PlotElement("line", [from |-> as_tuple(samples[1]), to |-> as_tuple(samples[2])])

line_circle_intersection(circle, line) ==
    LET Meet(sym_line) ==
            IF IsRaised(sym_line) THEN sym_line
            ELSE LET Report(points) ==
                         MeetResult("line_circle_intersection", points,
                             IF points = << >> THEN << >>
                             ELSE <<CirclePlot(circle), BareLinePlot(sample_points(line))>>)
                 IN  Report(LineMeets(circle, sym_line.a, sym_line.b, sym_line.c))
    IN  Meet(as_sympy(line))

\* The difference of the equations of two circles, a*x + b*y + c = 0.
RadicalLine(c1, c2) ==
    <<RMul(R(2), RSub(c2.center.x, c1.center.x)),
      RMul(R(2), RSub(c2.center.y, c1.center.y)),
      RSub(RSub(RAdd(RSq(c1.center.x), RSq(c1.center.y)), RSq(c1.radius)),
           RSub(RAdd(RSq(c2.center.x), RSq(c2.center.y)), RSq(c2.radius)))>>

SameCircle(c1, c2) == as_tuple(c1.center) = as_tuple(c2.center) /\ c1.radius = c2.radius

\* sympy's Circle.intersection with a circle: the circle itself, not a list,
\* when the two are equal; otherwise the real solutions of the two equations.
CircleMeets(c1, c2) ==
    LET On(rl) == IF rl[1] = R(0) /\ rl[2] = R(0) THEN << >>
                  ELSE LineMeets(c1, rl[1], rl[2], rl[3])
    IN  On(RadicalLine(c1, c2))

circle_circle_intersection(circle1, circle2) ==
    \* iterating over a circle where a list of points is expected
    IF SameCircle(circle1, circle2) THEN Raised("TypeError")
    ELSE LET Report(points) ==
                 MeetResult("circle_circle_intersection", points,
                     IF points = << >> THEN << >>
                     ELSE <<CirclePlot(circle1), CirclePlot(circle2)>>)
         IN  Report(CircleMeets(circle1, circle2))

\* radical_axis asks sympy's Circle for its radical_axis.  found tells
\* whether the installed sympy's Circle has that attribute; when it has, the
\* axis is the difference of the two circle equations.
radical_axis(circle1, circle2, found) ==
    LET Axis(line) ==
            IF IsRaised(line) THEN line
            ELSE IF SampleRaises(line) THEN Raised("ZeroDivisionError")
            ELSE Result("ok", "radical_axis", [line |-> display(line)],
                        <<LinePlot(line, "radical_axis")>>, {})
    IN  IF ~found THEN Raised("AttributeError")
        ELSE Axis(FromCoefficients(RadicalLine(circle1, circle2), "radical_axis"))

----------------------------------------------------------------------------
(* conics.py: the standard forms.  The sample points of a curve element are
   kept as the one value "sampled" under the key the code stores them at. *)

\* The largest finite float, about 1.8e308.
FloatMax == <<<<18, 1, 307>>, Zero, Zero>>

\* x ** 2 on Python floats raises OverflowError when the square is no float.
SquareOverflows(x) == RLt(FloatMax, RSq(x))

parabola_y2_4ax(a) ==
    IF a = R(0)
    THEN Result("error", "parabola_y2_4ax",
                [message |-> "Parameter 'a' must be non-zero"], << >>, {"degenerate"})
    ELSE LET Focused(directrix) ==
                 IF IsRaised(directrix) THEN directrix
                 ELSE Result("ok", "parabola_y2_4ax",
                         [vertex |-> <<R(0), R(0)>>, focus |-> <<a, R(0)>>,
                          directrix |-> [A |-> R(1), B |-> R(0), C |-> RNeg(a)],
                          axis |-> "x-axis", latus_rectum |-> RAbs(RMul(R(4), a))],
                         <<PlotElement("curve", [points |-> "sampled", label |-> "Parabola"]),
                           PlotElement("point", [coords |-> <<a, R(0)>>, label |-> "F"]),
                           PlotElement("line", [from |-> <<RNeg(a), R(-10)>>,
                                                to |-> <<RNeg(a), R(10)>>,
                                                label |-> "Directrix"])>>,
                         {})
         IN  Focused(from_general(R(1), R(0), RNeg(a), "directrix"))

parabola_x2_4ay(a) ==
    IF a = R(0)
    THEN Result("error", "parabola_x2_4ay",
                [message |-> "Parameter 'a' must be non-zero"], << >>, {"degenerate"})
    ELSE LET Focused(directrix) ==
                 IF IsRaised(directrix) THEN directrix
                 ELSE Result("ok", "parabola_x2_4ay",
                         [vertex |-> <<R(0), R(0)>>, focus |-> <<R(0), a>>,
                          directrix |-> [A |-> R(0), B |-> R(1), C |-> RNeg(a)],
                          axis |-> "y-axis", latus_rectum |-> RAbs(RMul(R(4), a))],
                         <<PlotElement("curve", [points |-> "sampled", label |-> "Parabola"]),
                           PlotElement("point", [coords |-> <<R(0), a>>, label |-> "F"]),
                           PlotElement("line", [from |-> <<R(-10), RNeg(a)>>,
                                                to |-> <<R(10), RNeg(a)>>,
                                                label |-> "Directrix"])>>,
                         {})
         IN  Focused(from_general(R(0), R(1), RNeg(a), "directrix"))

ellipse_standard(a, b) ==
    IF RLeq(a, R(0)) \/ RLeq(b, R(0))
    THEN Result("error", "ellipse_standard",
                [message |-> "Semi-axes must be positive"], << >>, {"degenerate"})
    ELSE IF SquareOverflows(a) \/ SquareOverflows(b) THEN Raised("OverflowError")
    ELSE LET Foci(c) ==
                 Result("ok", "ellipse_standard",
                     [semi_major |-> IF RLeq(b, a) THEN a ELSE b,
                      semi_minor |-> IF RLeq(a, b) THEN a ELSE b,
                      foci |-> <<<<c, R(0)>>, <<RNeg(c), R(0)>>>>,
                      eccentricity |-> RDiv(c, IF RLeq(b, a) THEN a ELSE b)],
                     <<PlotElement("curve", [points |-> "sampled", label |-> "Ellipse"]),
                       PlotElement("point", [coords |-> <<c, R(0)>>, label |-> "F1"]),
                       PlotElement("point", [coords |-> <<RNeg(c), R(0)>>, label |-> "F2"])>>,
                     {})
         IN  Foci(RSqrt(RAbs(RSub(RSq(a), RSq(b)))))

hyperbola_standard(a, b) ==
    IF RLeq(a, R(0)) \/ RLeq(b, R(0))
    THEN Result("error", "hyperbola_standard",
                [message |-> "Semi-axes must be positive"], << >>, {"degenerate"})
    ELSE IF SquareOverflows(a) \/ SquareOverflows(b) THEN Raised("OverflowError")
    ELSE LET Branches(c, asymptote_slope) ==
                 Result("ok", "hyperbola_standard",
                     [foci |-> <<<<c, R(0)>>, <<RNeg(c), R(0)>>>>,
                      eccentricity |-> RDiv(c, a),
                      asymptotes |-> <<[A |-> asymptote_slope, B |-> R(-1), C |-> R(0)],
                                       [A |-> RNeg(asymptote_slope), B |-> R(-1),
                                        C |-> R(0)]>>],
                     <<PlotElement("curve", [points |-> "sampled", label |-> "Hyperbola+"]),
                       PlotElement("curve", [points |-> "sampled", label |-> "Hyperbola-"]),
                       PlotElement("line",
                           [from |-> <<R(-10), RMul(RNeg(asymptote_slope), R(10))>>,
                            to |-> <<R(10), RMul(asymptote_slope, R(10))>>]),
                       PlotElement("line",
                           [from |-> <<R(-10), RMul(asymptote_slope, R(10))>>,
                            to |-> <<R(10), RMul(RNeg(asymptote_slope), R(10))>>])>>,
                     {})
         IN  Branches(RSqrt(RAdd(RSq(a), RSq(b))), RDiv(b, a))

\* The name given to the quadratic from the sign of its discriminant.
ConicType(discriminant, A, C) ==
    IF RLt(discriminant, R(0))
    THEN (IF A = C THEN "ellipse" ELSE "imaginary ellipse")
    ELSE IF discriminant = R(0) THEN "parabola"
    ELSE "hyperbola"

classify_general_quadratic(A, B, C, D, E, F) ==
    LET Typed(discriminant) ==
            Result("ok", "classify_quadratic",
                   [discriminant |-> discriminant, type |-> ConicType(discriminant, A, C)],
                   << >>, {})
    IN  Typed(RSub(RSq(B), RMul(RMul(R(4), A), C)))

\* coeffs.get(key, 0.0)
Get(coeffs, key) == IF key \in DOMAIN coeffs THEN coeffs[key] ELSE R(0)

\* sympy's solve of qa*t^2 + qb*t + qc = 0 for a symbol without assumptions:
\* every root, the complex ones included; no root when the polynomial is a
\* constant.  The roots are given when they are real.
QuadraticRoots(qa, qb, qc) ==
    LET By(disc) ==
            IF RLt(disc, R(0)) THEN [complex |-> TRUE, roots |-> << >>]
            ELSE IF disc = R(0)
            THEN [complex |-> FALSE, roots |-> <<RDiv(RNeg(qb), RMul(R(2), qa))>>]
            ELSE LET Pair(mid, half) ==
                         [complex |-> FALSE,
                          roots |-> <<RSub(mid, RAbs(half)), RAdd(mid, RAbs(half))>>]
                 IN  Pair(RDiv(RNeg(qb), RMul(R(2), qa)),
                          RDiv(RSqrt(disc), RMul(R(2), qa)))
    IN  IF qa = R(0)
        THEN (IF qb = R(0) THEN [complex |-> FALSE, roots |-> << >>]
              ELSE [complex |-> FALSE, roots |-> <<RDiv(RNeg(qc), qb)>>])
        ELSE By(RSub(RSq(qb), RMul(RMul(R(4), qa), qc)))

line_conic_intersection(line, coeffs) ==
    LET A == Get(coeffs, "A")
        B == Get(coeffs, "B")
        C == Get(coeffs, "C")
        D == Get(coeffs, "D")
        E == Get(coeffs, "E")
        F == Get(coeffs, "F")
        Report(points) ==
            Result("ok", "line_conic_intersection", [points |-> points],
                   <<PlotElement("points", [coords |-> points])>>, {})
        \* y = m*x + k put into the equation
        AlongX(m, k) ==
            LET Solved(sol) ==
                    \* float(root) of a complex root
                    IF sol.complex THEN Raised("TypeError")
                    ELSE Report([idx \in DOMAIN sol.roots |->
                                    <<sol.roots[idx], RAdd(RMul(m, sol.roots[idx]), k)>>])
            IN  Solved(QuadraticRoots(
                    RAdd(RAdd(A, RMul(B, m)), RMul(C, RSq(m))),
                    RAdd(RAdd(RAdd(RMul(B, k), RMul(RMul(R(2), C), RMul(m, k))), D),
                         RMul(E, m)),
                    RAdd(RAdd(RMul(C, RSq(k)), RMul(E, k)), F)))
        \* x = x0 put into the equation
        AlongY(x0) ==
            LET Solved(sol) ==
                    IF sol.complex THEN Raised("TypeError")
                    ELSE Report([idx \in DOMAIN sol.roots |-> <<x0, sol.roots[idx]>>])
            IN  Solved(QuadraticRoots(
                    C,
                    RAdd(RMul(B, x0), E),
                    RAdd(RAdd(RMul(A, RSq(x0)), RMul(D, x0)), F)))
    IN  IF RLt(EPS, RAbs(line.B))
        THEN AlongX(RDiv(RNeg(line.A), line.B), RDiv(RNeg(line.C), line.B))
        ELSE IF line.A = R(0)
        THEN Result("error", "line_conic_intersection",
                    [message |-> "Unable to parametrize line"], << >>, {})
        ELSE AlongY(RDiv(RNeg(line.C), line.A))

----------------------------------------------------------------------------
(* core/triangles.py.  A side length is sqrt(m) for a rational m, and the
   three sides have three radicands: lengths are compared through their
   squares. *)

TriangleMetrics(a, b, c) == [a |-> a, b |-> b, c |-> c]

\* float(np.linalg.norm(p - q)) for each pair of vertices
side_lengths(t) ==
    <<RSqrt(Dist2(t.a, t.b)), RSqrt(Dist2(t.b, t.c)), RSqrt(Dist2(t.c, t.a))>>

\* s <= t for lengths s, t >= 0
LengthLeq(s, t) == RLeq(RSq(s), RSq(t))

\* sorted([ab, bc, ca])
SortedSides(l) ==
    LET Two(lo, hi) ==
            IF LengthLeq(l[3], lo) THEN <<l[3], lo, hi>>
            ELSE IF LengthLeq(l[3], hi) THEN <<lo, l[3], hi>>
            ELSE <<lo, hi, l[3]>>
    IN  IF LengthLeq(l[1], l[2]) THEN Two(l[1], l[2]) ELSE Two(l[2], l[1])

\* |sqrt(m) - sqrt(n)| <= tol for rationals m, n >= 0, with d2 = (m - n)^2,
\* sum = m + n and tol2 = tol^2: the test is d2 <= tol2 * (sqrt(m) + sqrt(n))^2,
\* and (sqrt(m) + sqrt(n))^2 lies between sum and 2*sum.
CloseRoots(m, n, d2, sum, tol2) ==
    IF m = n THEN TRUE
    ELSE IF NLt(NMul(tol2, NMul(NInt(2), sum)), d2) THEN FALSE
    ELSE IF NLeq(d2, NMul(tol2, sum)) THEN TRUE
    ELSE NLeq(NSq(NSub(d2, NMul(tol2, sum))),
              NMul(NMul(NInt(4), NSq(tol2)), NMul(m, n)))

\* abs(s - t) <= tol for two lengths
CloseLengths(s, t, tol) ==
    LET On(m, n) == CloseRoots(m, n, NSq(NSub(m, n)), NAdd(m, n), NSq(tol[1]))
    IN  On(RSq(s)[1], RSq(t)[1])

RightTol == Rat(Num(1, 1, -6))

\* classification with scalene taken as "not equilateral" alone.
ScaleneNotEquilateral(t) ==
    LET Classified(l, sides) ==
            LET Flags(equilateral, isosceles) ==
                    [equilateral |-> equilateral,
                     isosceles |-> isosceles,
                     right |-> RLeq(RAbs(RSub(RSq(sides[3]),
                                              RAdd(RSq(sides[1]), RSq(sides[2])))),
                                    RightTol),
                     scalene |-> ~equilateral]
            IN  Flags(CloseLengths(sides[3], sides[1], EPS),
                      \/ CloseLengths(l[1], l[2], EPS)
                      \/ CloseLengths(l[2], l[3], EPS)
                      \/ CloseLengths(l[3], l[1], EPS))
        Sided(l) == Classified(l, SortedSides(l))
    IN  Sided(side_lengths(t))

classification(t) ==
    LET Classified(l, sides) ==
            LET Flags(equilateral, isosceles) ==
                    [equilateral |-> equilateral,
                     isosceles |-> isosceles,
                     right |-> RLeq(RAbs(RSub(RSq(sides[3]),
                                              RAdd(RSq(sides[1]), RSq(sides[2])))),
                                    RightTol),
                     scalene |-> ~equilateral /\ ~isosceles]
            IN  Flags(CloseLengths(sides[3], sides[1], EPS),
                      \/ CloseLengths(l[1], l[2], EPS)
                      \/ CloseLengths(l[2], l[3], EPS)
                      \/ CloseLengths(l[3], l[1], EPS))
        Sided(l) == Classified(l, SortedSides(l))
    IN  Sided(side_lengths(t))

\* Twice the signed area of sympy's Polygon: the sum of x_i*y_(i+1) - x_(i+1)*y_i.
Shoelace(t) ==
    RAdd(RAdd(RSub(RMul(t.a.x, t.b.y), RMul(t.b.x, t.a.y)),
              RSub(RMul(t.b.x, t.c.y), RMul(t.c.x, t.b.y))),
         RSub(RMul(t.c.x, t.a.y), RMul(t.a.x, t.c.y)))

\* area without the abs().
SignedArea(t) == RDiv(Shoelace(t), R(2))

\* abs(Polygon(a, b, c).area), for vertices that are not collinear
area(t) == RAbs(RDiv(Shoelace(t), R(2)))

centroid(t) ==
    Point(RDiv(RAdd(RAdd(t.a.x, t.b.x), t.c.x), R(3)),
          RDiv(RAdd(RAdd(t.a.y, t.b.y), t.c.y), R(3)), "G")

\* x^2 + y^2
Norm2(p) == RAdd(RSq(p.x), RSq(p.y))

\* sympy's Triangle.circumcenter: the meet of two perpendicular bisectors
circumcenter(t) ==
    LET Centered(d, na, nb, nc) ==
            Point(RDiv(RAdd(RAdd(RMul(na, RSub(t.b.y, t.c.y)), RMul(nb, RSub(t.c.y, t.a.y))),
                            RMul(nc, RSub(t.a.y, t.b.y))), d),
                  RDiv(RAdd(RAdd(RMul(na, RSub(t.c.x, t.b.x)), RMul(nb, RSub(t.a.x, t.c.x))),
                            RMul(nc, RSub(t.b.x, t.a.x))), d), "O")
    IN  Centered(RMul(R(2), Shoelace(t)), Norm2(t.a), Norm2(t.b), Norm2(t.c))

\* sympy's Triangle.orthocenter: the meet of two altitudes, a + b + c - 2*O
orthocenter(t) ==
    LET Against(o) ==
            Point(RSub(RAdd(RAdd(t.a.x, t.b.x), t.c.x), RMul(R(2), o.x)),
                  RSub(RAdd(RAdd(t.a.y, t.b.y), t.c.y), RMul(R(2), o.y)), "H")
    IN  Against(circumcenter(t))

\* sympy's Triangle.circumradius: the distance from the circumcenter to a vertex
circumradius(t) == RSqrt(Dist2(circumcenter(t), t.a))

\* sympy's Triangle.incenter and Triangle.inradius weigh the vertices by the
\* three side lengths, a sum over three radicands; they are kept as terms.
incenter(t) == [of |-> "incenter", sides |-> side_lengths(t), label |-> "I"]

inradius(t) == [of |-> "inradius", area |-> area(t), sides |-> side_lengths(t)]

summary(t) ==
    LET Summed(centroid_point, circumcenter_point, sides) ==
            Result("ok", "triangle_summary",
                   [area |-> area(t),
                    centroid |-> as_tuple(centroid_point),
                    circumcenter |-> as_tuple(circumcenter_point),
                    incenter |-> incenter(t),
                    orthocenter |-> as_tuple(orthocenter(t)),
                    circumradius |-> circumradius(t),
                    inradius |-> inradius(t),
                    classification |-> classification(t),
                    side_lengths |-> [AB |-> sides[1], BC |-> sides[2], CA |-> sides[3]]],
                   <<PlotElement("polygon",
                                 [vertices |-> <<as_tuple(t.a), as_tuple(t.b), as_tuple(t.c)>>,
                                  label |-> "ABC"]),
                     PlotElement("point", [coords |-> as_tuple(centroid_point), label |-> "G"]),
                     PlotElement("point", [coords |-> as_tuple(circumcenter_point),
                                           label |-> "O"]),
                     PlotElement("circle", [center |-> as_tuple(circumcenter_point),
                                            radius |-> circumradius(t)]),
                     PlotElement("point", [coords |-> incenter(t), label |-> "I"]),
                     PlotElement("point", [coords |-> as_tuple(orthocenter(t)),
                                           label |-> "H"])>>,
                   {})
    IN  \* Polygon and Triangle of collinear points are a Segment or a Point,
        \* which have no area and no circumcenter
        IF Shoelace(t) = R(0) THEN Raised("AttributeError")
        ELSE Summed(centroid(t), circumcenter(t), side_lengths(t))

----------------------------------------------------------------------------
(* core/matrices.py.  A matrix argument is a sequence of rows, each a
   sequence of numbers. *)

\* np.array(matrix, dtype=float) has two dimensions: there is a row, and the
\* rows have one length.
TwoDimensional(matrix) ==
    /\ Len(matrix) > 0
    /\ \A i \in DOMAIN matrix : Len(matrix[i]) = Len(matrix[1])

\* np.array raises ValueError on ragged rows; one dimension is rejected.
_ensure_matrix(matrix) ==
    IF TwoDimensional(matrix) THEN [exc |-> "none", arr |-> matrix]
    ELSE Raised("ValueError")

\* arr.shape
Shape(arr) == <<Len(arr), Len(arr[1])>>

matrix_addition(a, b) ==
    IF IsRaised(_ensure_matrix(a)) \/ IsRaised(_ensure_matrix(b)) THEN Raised("ValueError")
    ELSE IF Shape(a) # Shape(b)
    THEN Result("error", "matrix_addition",
                [message |-> "Matrices must share the same shape"], << >>, {})
    ELSE Result("ok", "matrix_addition",
                [result |-> [i \in 1..Len(a) |->
                                [j \in 1..Len(a[1]) |-> RAdd(a[i][j], b[i][j])]]],
                << >>, {})

\* The row-by-column sum without its first term.
RECURSIVE DotSkipsFirst(_, _, _, _)
DotSkipsFirst(a, b, i, j) ==
    IF Len(b) < 2 THEN R(0)
    ELSE RAdd(RMul(a[i][Len(b)], b[Len(b)][j]),
              IF Len(b) = 2 THEN R(0)
              ELSE DotSkipsFirst(<<SubSeq(a[i], 1, Len(b) - 1)>>, SubSeq(b, 1, Len(b) - 1), 1, j))

\* Entry (i, j) of mat_a @ mat_b: the product of row i of a and column j of b.
RECURSIVE Dot(_, _, _, _)
Dot(a, b, i, j) ==
    IF Len(b) = 0 THEN R(0)
    ELSE RAdd(Dot(<<SubSeq(a[i], 1, Len(b) - 1)>>, SubSeq(b, 1, Len(b) - 1), 1, j),
              RMul(a[i][Len(b)], b[Len(b)][j]))

matrix_multiplication(a, b) ==
    IF IsRaised(_ensure_matrix(a)) \/ IsRaised(_ensure_matrix(b)) THEN Raised("ValueError")
    ELSE IF Len(a[1]) # Len(b)
    THEN Result("error", "matrix_multiplication",
                [message |-> "Inner dimensions must agree"], << >>, {})
    ELSE Result("ok", "matrix_multiplication",
                [result |-> [i \in 1..Len(a) |->
                                [j \in 1..Len(b[1]) |-> Dot(a, b, i, j)]]],
                << >>, {})

\* The matrix without row i and column j.
Minor(m, i, j) ==
    [r \in 1..(Len(m) - 1) |->
        [c \in 1..(Len(m) - 1) |->
            m[IF r < i THEN r ELSE r + 1][IF c < j THEN c ELSE c + 1]]]

\* np.linalg.det(mat) of a square matrix, expanded along the first row.
RECURSIVE Determinant(_)
Determinant(m) ==
    IF Len(m) = 0 THEN R(1)
    ELSE IF Len(m) = 1 THEN m[1][1]
    ELSE LET RECURSIVE Along(_)
             Along(j) ==
                 IF j = 0 THEN R(0)
                 ELSE RAdd(Along(j - 1),
                           RMul(IF j % 2 = 1 THEN m[1][j] ELSE RNeg(m[1][j]),
                                Determinant(Minor(m, 1, j))))
         IN  Along(Len(m))

\* np.linalg.inv(mat) for det # 0: the transposed cofactors over det.
Inverse(m, det) ==
    [i \in 1..Len(m) |->
        [j \in 1..Len(m) |->
            RDiv(IF (i + j) % 2 = 0 THEN Determinant(Minor(m, j, i))
                 ELSE RNeg(Determinant(Minor(m, j, i))), det)]]

matrix_inverse(matrix) ==
    LET Inverted(det) ==
            IF RLt(RAbs(det), EPS)
            THEN Result("warning", "matrix_inverse",
                        [message |-> "Matrix is nearly singular"], << >>,
                        {"singular_matrix"})
            ELSE Result("ok", "matrix_inverse",
                        [inverse |-> Inverse(matrix, det), determinant |-> det], << >>, {})
    IN  IF IsRaised(_ensure_matrix(matrix)) THEN Raised("ValueError")
        ELSE IF Len(matrix) # Len(matrix[1])
        THEN Result("error", "matrix_inverse",
                    [message |-> "Matrix must be square"], << >>, {})
        ELSE Inverted(Determinant(matrix))

CircleSamples == 200

GridSteps == 5

\* _unit_circle_samples(n): row k is (cos t, sin t) at t = 2*pi*(k-1)/(n-1),
\* kept as terms.
_unit_circle_samples(n) ==
    [k \in 1..n |-> <<[fn |-> "cos", k |-> k, n |-> n], [fn |-> "sin", k |-> k, n |-> n]>>]

\* np.linspace(-1, 1, n)
Linspace(n) == [k \in 1..n |-> RAdd(R(-1), RDiv(R(2 * (k - 1)), R(n - 1)))]

\* _grid_samples(): x outer, y inner
_grid_samples ==
    [k \in 1..(GridSteps * GridSteps) |->
        <<Linspace(GridSteps)[((k - 1) \div GridSteps) + 1],
          Linspace(GridSteps)[((k - 1) % GridSteps) + 1]>>]

\* Row i of a 2x2 matrix applied to the sample p: exact for a grid point, a
\* linear form in cos t and sin t for a circle sample.
ImageCoord(row, p, shape) ==
    IF shape = "grid" THEN RAdd(RMul(row[1], p[1]), RMul(row[2], p[2]))
    ELSE [cos |-> row[1], sin |-> row[2], k |-> p[1].k]

matrix_transform(matrix, shape) ==
    LET Drawn(kind, points, transformed) ==
            Result("ok", "matrix_transform",
                   [determinant |-> Determinant(matrix), transformed |-> transformed],
                   <<PlotElement(kind, [points |-> points, label |-> "Original"]),
                     PlotElement(kind, [points |-> transformed, label |-> "Transformed"])>>,
                   {})
        Mapped(points) ==
            \* mat @ points.T with points.T of two rows: the core dimensions
            \* of a 3x3 matrix do not match
            IF Len(matrix) # 2 THEN Raised("ValueError")
            ELSE Drawn(IF shape = "unit_circle" THEN "curve" ELSE "lines", points,
                       [k \in DOMAIN points |->
                           <<ImageCoord(matrix[1], points[k], shape),
                             ImageCoord(matrix[2], points[k], shape)>>])
    IN  IF IsRaised(_ensure_matrix(matrix)) THEN Raised("ValueError")
        ELSE IF Len(matrix) # Len(matrix[1])
        THEN Result("error", "matrix_transform",
                    [message |-> "Matrix must be square"], << >>, {})
        ELSE IF Len(matrix) \notin {2, 3}
        THEN Result("error", "matrix_transform",
                    [message |-> "Only 2x2 or 3x3 matrices supported"], << >>, {})
        ELSE IF shape = "unit_circle" THEN Mapped(_unit_circle_samples(CircleSamples))
        ELSE IF shape = "grid" THEN Mapped(_grid_samples)
        ELSE Raised("ValueError")

----------------------------------------------------------------------------
(* core/transforms.py.  points is a sequence of Point records. *)

\* [p.as_tuple() for p in points]
Tuples(points) == [i \in DOMAIN points |-> as_tuple(points[i])]

\* The two "points" plot elements of a transform.
BeforeAfter(original, image, label) ==
    <<PlotElement("points", [coords |-> original, label |-> "Original"]),
      PlotElement("points", [coords |-> image, label |-> label])>>

apply_translation(points, dx, dy) ==
    LET Moved(translated) ==
            Result("ok", "translation", [translated |-> translated],
                   BeforeAfter(Tuples(points), translated, "Translated"), {})
    IN  Moved([i \in DOMAIN points |-> <<RAdd(points[i].x, dx), RAdd(points[i].y, dy)>>])

\* cos(radians(a)) and sin(radians(a)) for a multiple of 90 degrees.
CosDeg(a) == IF a % 360 = 0 THEN R(1) ELSE IF a % 360 = 180 THEN R(-1) ELSE R(0)

SinDeg(a) == IF a % 360 = 90 THEN R(1) ELSE IF a % 360 = 270 THEN R(-1) ELSE R(0)

\* pivot or Point(0, 0)
PivotOr(pivot) == IF pivot = None THEN Point(R(0), R(0), "") ELSE pivot

apply_rotation(points, angle_degrees, pivot) ==
    LET Turned(c, sn, pv) ==
            LET Rotated(rotated) ==
                    Result("ok", "rotation", [rotated |-> rotated],
                           BeforeAfter(Tuples(points), rotated, "Rotated")
                               \o <<PlotElement("point",
                                        [coords |-> as_tuple(pv),
                                         label |-> IF pv.label = "" THEN "Pivot"
                                                   ELSE pv.label])>>, {})
            IN  Rotated([i \in DOMAIN points |->
                    <<RAdd(RSub(RMul(RSub(points[i].x, pv.x), c),
                                RMul(RSub(points[i].y, pv.y), sn)), pv.x),
                      RAdd(RAdd(RMul(RSub(points[i].x, pv.x), sn),
                                RMul(RSub(points[i].y, pv.y), c)), pv.y)>>])
    IN  Turned(CosDeg(angle_degrees), SinDeg(angle_degrees), PivotOr(pivot))

apply_scaling(points, sx, sy, pivot) ==
    LET About(pv) ==
            LET Scaled(scaled) ==
                    Result("ok", "scaling", [scaled |-> scaled],
                           BeforeAfter(Tuples(points), scaled, "Scaled"), {})
            IN  Scaled([i \in DOMAIN points |->
                    <<RAdd(pv.x, RMul(sx, RSub(points[i].x, pv.x))),
                      RAdd(pv.y, RMul(sy, RSub(points[i].y, pv.y)))>>])
    IN  About(PivotOr(pivot))

\* sympy's Point.reflect(line): p - 2*(a*x + b*y + c)/(a^2 + b^2) * (a, b)
Reflect(p, l) ==
    LET Across(k) == <<RSub(p.x, RMul(k, l.A)), RSub(p.y, RMul(k, l.B))>>
    IN  Across(RDiv(RMul(R(2), RAdd(RAdd(RMul(l.A, p.x), RMul(l.B, p.y)), l.C)),
                    RAdd(RSq(l.A), RSq(l.B))))

apply_reflection(points, line) ==
    LET Mirrored(reflected, ends) ==
            Result("ok", "reflection", [reflected |-> reflected],
                   <<PlotElement("line",
                        [from |-> as_tuple(ends[1]), to |-> as_tuple(ends[2]),
                         label |-> IF line.label = "" THEN "Mirror" ELSE line.label])>>
                       \o BeforeAfter(Tuples(points), reflected, "Reflected"), {})
    IN  IF IsRaised(as_sympy(line)) THEN as_sympy(line)
        ELSE Mirrored([i \in DOMAIN points |-> Reflect(points[i], line)],
                      sample_points(line))

\* row[0] / row[2] on numpy floats: inf or nan for row[2] = 0, without raising
NpOver(num, den) == IF den = R(0) THEN NonFinite ELSE RDiv(num, den)

\* Row r of the 3x3 matrix applied to (x, y, 1).
Homogeneous(matrix, r, p) ==
    RAdd(RAdd(RMul(matrix[r][1], p.x), RMul(matrix[r][2], p.y)), matrix[r][3])

apply_affine(matrix, points) ==
    LET Transformed(cartesian) ==
            Result("ok", "affine_transform", [transformed |-> cartesian],
                   BeforeAfter(Tuples(points), cartesian, "Affine"), {})
        Divided(p, w) == <<NpOver(Homogeneous(matrix, 1, p), w),
                           NpOver(Homogeneous(matrix, 2, p), w)>>
    IN  IF ~TwoDimensional(matrix) \/ Shape(matrix) # <<3, 3>> THEN Raised("ValueError")
        \* np.column_stack of an empty array has two columns: matmul raises
        ELSE IF Len(points) = 0 THEN Raised("ValueError")
        ELSE Transformed([i \in DOMAIN points |->
                             Divided(points[i], Homogeneous(matrix, 3, points[i]))])

----------------------------------------------------------------------------
(* core/trig.py: verify_identity.  An expression is the string handed to
   sympify; NonFinite stands for nan. *)

\* float(expr.subs({x: value}).evalf()) for the expressions of the inputs; a
\* quotient 0/0 is nan in sympy.
Evaluate(expr, value) ==
    IF value = NonFinite THEN NonFinite
    ELSE IF expr = "x" THEN value
    ELSE IF expr = "2*x" THEN RMul(R(2), value)
    ELSE IF expr = "x + x" THEN RAdd(value, value)
    ELSE IF expr = "x + 1" THEN RAdd(value, R(1))
    ELSE IF expr = "x**2" THEN RSq(value)
    ELSE IF expr = "(x**2 - 1)/(x - 1)"
    THEN \* away from the pole the quotient is x + 1
         (IF value = R(1) THEN NonFinite ELSE RAdd(value, R(1)))
    ELSE NonFinite

\* lhs - rhs at the sample, as a float
Difference(lhs, rhs, value) ==
    LET Of(l, r) == IF l = NonFinite \/ r = NonFinite THEN NonFinite ELSE RSub(l, r)
    IN  Of(Evaluate(lhs, value), Evaluate(rhs, value))

\* Python's max over abs(d): a later element replaces the running maximum
\* only when it compares greater, which a nan never does.
RECURSIVE MaxAbs(_)
MaxAbs(differences) ==
    IF Len(differences) = 1
    THEN (IF differences[1] = NonFinite THEN NonFinite ELSE RAbs(differences[1]))
    ELSE LET Against(m, d) ==
                 IF m = NonFinite \/ d = NonFinite THEN m
                 ELSE IF RLt(m, RAbs(d)) THEN RAbs(d) ELSE m
         IN  Against(MaxAbs(SubSeq(differences, 1, Len(differences) - 1)),
                     differences[Len(differences)])

DefaultSamples == 20

\* math.pi, to two decimals.
Pi == Rat(Num(314, 1, -2))

\* samples or np.linspace(-2*pi, 2*pi, 20)
SamplesOr(samples) ==
    IF Len(samples) > 0 THEN samples
    ELSE [k \in 1..DefaultSamples |->
             RDiv(RMul(RMul(R(2), Pi), R(2 * (k - 1) - (DefaultSamples - 1))),
                  R(DefaultSamples - 1))]

IdentityTol == Rat(Num(1, 1, -6))

verify_identity(lhs, rhs, samples) ==
    LET Judged(max_error) ==
            \* a comparison with nan is False
            LET Verdict(below, notbelow) ==
                    Result(IF below THEN "ok" ELSE "warning", "verify_trig_identity",
                           [max_error |-> max_error], << >>,
                           IF notbelow THEN {"numerical_tolerance"} ELSE {})
            IN  Verdict(max_error # NonFinite /\ RLt(max_error, IdentityTol),
                        max_error # NonFinite /\ RLeq(IdentityTol, max_error))
        Sampled(points) ==
            Judged(MaxAbs([i \in DOMAIN points |-> Difference(lhs, rhs, points[i])]))
    IN  Sampled(SamplesOr(samples))

-----------------------------------------------------------------------------
(* plotly_plotter.py: the renderer.  A figure is the sequence of its traces,
   each trace named by the type of the element it draws. *)

\* The dispatch table without the handler of "lines".
HandlersWithoutLines ==
    [point |-> {"coords"}, points |-> {"coords"},
     segment |-> {"from", "to"}, line |-> {"from", "to"},
     polygon |-> {"vertices"}, circle |-> {"center", "radius"},
     curve |-> {"points"}, area |-> {"points"}, vector |-> {"points"},
     angle |-> {}]

\* The dispatch table: each registered type with the keys its handler reads
\* as data[key]; a key read with data.get is read conditionally.
_HANDLERS ==
    [point |-> {"coords"}, points |-> {"coords"},
     segment |-> {"from", "to"}, line |-> {"from", "to"},
     polygon |-> {"vertices"}, circle |-> {"center", "radius"},
     curve |-> {"points"}, area |-> {"points"}, vector |-> {"points"},
     lines |-> {"points"}, angle |-> {}]

\* The element has a handler and that handler reads a key the data lacks.
MissingKey(element) ==
    /\ element.type \in DOMAIN _HANDLERS
    /\ ~(_HANDLERS[element.type] \subseteq DOMAIN element.data)

\* _handle_angle returns no trace for an angle without a vertex.
_handle_angle(element) ==
    IF "vertex" \notin DOMAIN element.data THEN << >> ELSE <<"angle">>

\* The traces the handler of the element returns; none without a handler.
Trace(element) ==
    IF element.type \notin DOMAIN _HANDLERS THEN << >>
    ELSE IF element.type = "angle" THEN _handle_angle(element)
    ELSE <<element.type>>

RECURSIVE Traces(_)
Traces(elements) ==
    IF elements = << >> THEN << >>
    ELSE Trace(Head(elements)) \o Traces(Tail(elements))

build_figure(elements) ==
    IF \E i \in DOMAIN elements : MissingKey(elements[i]) THEN Raised("KeyError")
    ELSE Result("returned", "", [traces |-> Traces(elements)], << >>, {})

-----------------------------------------------------------------------------
(* points.py: distance and midpoint, on floats. *)

\* A float sum or difference beyond the largest float is inf.
Overflowed(x) == IF RLt(FloatMax, RAbs(x)) THEN NonFinite ELSE x

\* x ** 2 of a Python float; the square of inf is inf.
FloatSquare(x) == IF x = NonFinite THEN NonFinite ELSE RSq(x)

distance(point_a, point_b) ==
    LET Measured(dx, dy) ==
            IF \/ dx # NonFinite /\ SquareOverflows(dx)
               \/ dy # NonFinite /\ SquareOverflows(dy)
            THEN Raised("OverflowError")
            ELSE LET Rooted(squared) ==
                         Result("ok", "distance",
                             [distance |-> IF squared = NonFinite THEN NonFinite
                                           ELSE RSqrt(squared)],
                             <<_point_element(point_a), _point_element(point_b),
                               PlotElement("segment", [from |-> as_tuple(point_a),
                                                       to |-> as_tuple(point_b)])>>,
                             {})
                 IN  Rooted(IF dx = NonFinite \/ dy = NonFinite THEN NonFinite
                            ELSE Overflowed(RAdd(FloatSquare(dx), FloatSquare(dy))))
    IN  Measured(Overflowed(RSub(point_b.x, point_a.x)),
                 Overflowed(RSub(point_b.y, point_a.y)))

\* (s) / 2 for the float sum s.
Halved(s) == IF s = NonFinite THEN NonFinite ELSE RDiv(s, R(2))

midpoint(point_a, point_b) ==
    LET Marked(mid) ==
            Result("ok", "midpoint",
                [midpoint |-> _point_payload(mid)],
                <<_point_element(point_a), _point_element(point_b),
                  PlotElement("segment", [from |-> as_tuple(point_a),
                                          to |-> as_tuple(point_b)]),
                  _point_element(mid)>>,
                {})
    IN  Marked(Point(Halved(Overflowed(RAdd(point_a.x, point_b.x))),
                     Halved(Overflowed(RAdd(point_a.y, point_b.y))), "M"))

-----------------------------------------------------------------------------
(* locus.py *)

perpendicular_bisector(a, b) ==
    LET Drawn(line) ==
            IF IsRaised(line) THEN line
            ELSE Result("ok", "perpendicular_bisector", [line |-> display(line)],
                        <<PlotElement("segment", [from |-> as_tuple(a),
                                                  to |-> as_tuple(b)]),
                          SegmentPlot(sample_points(line), "bisector")>>,
                        {})
        Through(midpoint_x, midpoint_y, direction) ==
            Drawn(from_general(direction[1], direction[2],
                               RNeg(RAdd(RMul(direction[1], midpoint_x),
                                         RMul(direction[2], midpoint_y))),
                               "perp_bisector"))
    IN  Through(RDiv(RAdd(a.x, b.x), R(2)), RDiv(RAdd(a.y, b.y), R(2)),
                <<RNeg(RSub(b.y, a.y)), RSub(b.x, a.x)>>)

apollonius_circle(point_a, point_b, ratio) ==
    LET m == ratio[1]
        n == ratio[2]
        Drawn(center, radius) ==
            Result("ok", "apollonius_circle",
                [center |-> center, radius |-> radius],
                <<PlotElement("circle", [center |-> center, radius |-> radius]),
                  PlotElement("point", [coords |-> as_tuple(point_a),
                                        label |-> OrLabel(point_a.label, "A")]),
                  PlotElement("point", [coords |-> as_tuple(point_b),
                                        label |-> OrLabel(point_b.label, "B")])>>,
                {})
    IN  IF RLeq(m, R(0)) \/ RLeq(n, R(0))
        THEN Result("error", "apollonius_circle",
                    [message |-> "Ratio parts must be positive"], << >>, {})
        ELSE Drawn(<<RDiv(RAdd(RMul(m, point_b.x), RMul(n, point_a.x)), RAdd(m, n)),
                     RDiv(RAdd(RMul(m, point_b.y), RMul(n, point_a.y)), RAdd(m, n))>>,
                   RDiv(RMul(RDiv(RAbs(RMul(m, n)), RAdd(m, n)),
                             RSqrt(Dist2(point_b, point_a))), m))

----------------------------------------------------------------------------
(* Inputs *)

MaxCoord == 1
MaxRatio == 3

\* A length below the tolerance: 5e-10.
Tiny == Rat(Num(5, 1, -10))

Ints == {R(i) : i \in -MaxCoord..MaxCoord}

Grid == {Point(x, y, "") : x \in Ints, y \in Ints}

\* Points closer to each other than EPS.
TinyGrid == {Point(x, y, "") : x \in {R(0), Tiny}, y \in {R(0), Tiny}}

\* Points whose abscissas differ by less than EPS.
NearVert == {Point(x, y, "") : x \in {R(0), Tiny}, y \in Ints}

\* The points of tests/test_points.py and tests/test_lines.py.
TestPairs == {<<Point(R(0), R(0), ""), Point(R(4), R(0), "")>>,
              <<Point(R(0), R(0), "A"), Point(R(2), R(2), "B")>>}

PointPairs == (Grid \X Grid) \cup (TinyGrid \X TinyGrid)
              \cup (NearVert \X NearVert) \cup TestPairs

Ratios == {<<R(m), R(n)>> : m \in 0..MaxRatio, n \in 0..MaxRatio}

MaxCoef == 2
MaxC == 1

Coefs == {R(i) : i \in -MaxCoef..MaxCoef}

Cs == {R(i) : i \in -MaxC..MaxC}

\* The outcome of a constructor call: the value built, or the exception.
Built(v) == IF IsRaised(v) THEN v ELSE Result("built", "", [line |-> v], << >>, {})

\* The lines Line.from_general accepts, on integer coefficients.
GeneralLines ==
    {from_general(A, B, C, "") : A \in Coefs, B \in Coefs, C \in Cs}
    \ {Raised("ValueError")}

\* Lines that are already normalized, with non-integer coefficients.
UnitLines == {from_general(Rat(Num(3, 5, 0)), Rat(Num(4, 5, 0)), C, "") : C \in Cs}

\* The lines of tests/test_lines.py.
TestLines == {from_general(R(1), R(-1), R(0), ""), from_general(R(0), R(1), R(-2), ""),
              from_general(R(1), R(0), R(0), ""), from_general(R(0), R(1), R(0), "")}

Lines == GeneralLines \cup TestLines

MetricLines == GeneralLines \cup UnitLines \cup TestLines

\* Pairs of lines whose two norms can be written with one square root.
BisectorPairs ==
    {pr \in MetricLines \X MetricLines :
        LET N == PairRadicand(pr[1], pr[2])
        IN  /\ RootIn(RAdd(RSq(pr[1].A), RSq(pr[1].B)), N)
            /\ RootIn(RAdd(RSq(pr[2].A), RSq(pr[2].B)), N)}

Slopes == Ints \cup {NonFinite}

MaxRadius == 5

CircleCoords == {R(i) : i \in -MaxRadius..MaxRadius}

CirclePoints == {Point(x, y, "P") : x \in CircleCoords, y \in CircleCoords}

Circles == {from_center_radius(c, R(r), "") :
                c \in {Point(R(0), R(0), ""), Point(R(1), R(-1), "")}, r \in 1..MaxRadius}

\* The values the radius field of the UI accepts: min_value = 0.0.
RadiusInputs == {R(r) : r \in 0..MaxRadius}

\* The outcome of a Circle constructor: the circle built, or the exception.
BuiltCircle(v) == IF IsRaised(v) THEN v ELSE Result("built", "", [circle |-> v], << >>, {})

\* A circle of radius 5e-4 and points inside it, on it and outside it.
SmallCircle == from_center_radius(Point(R(0), R(0), ""), Rat(Num(5, 1, -4)), "")

SmallPoints == {Point(Rat(Num(x, 1, -4)), Rat(Num(y, 1, -4)), "P") :
                    x \in {0, 3, 5}, y \in {0, 4}}

TangentInputs == (Circles \X CirclePoints) \cup ({SmallCircle} \X SmallPoints)

MaxAxis == 4

\* A float whose square is beyond the floats: 1e200.
Huge == <<<<1, 1, 200>>, Zero, Zero>>

\* The values of the number inputs a and b of the conics.
AxisInputs == {R(i) : i \in -1..MaxAxis} \cup {Huge}

\* The coefficients A..F of a general quadratic: small integers, and the
\* ellipse 4x^2 + 9y^2 - 36 = 0.
Quadratics ==
    {[A |-> A, B |-> B, C |-> C, D |-> D, E |-> R(0), F |-> F] :
        A \in Coefs, B \in Coefs, C \in Coefs, D \in {R(0), R(1)}, F \in Cs}
    \cup {[A |-> R(4), B |-> R(0), C |-> R(9), D |-> R(0), E |-> R(0), F |-> R(-36)]}

\* Coefficient maps of conics: the unit circle, the parabola y^2 = 4x, the
\* hyperbola xy = 1, the ellipse 4x^2 + 9y^2 = 36, the line pair xy = 0 and
\* the empty map.
Conics ==
    {[A |-> R(1), C |-> R(1), F |-> R(-1)],
     [C |-> R(1), D |-> R(-4)],
     [B |-> R(1), F |-> R(-1)],
     [A |-> R(4), C |-> R(9), F |-> R(-36)],
     [B |-> R(1)],
     << >>}

MaxVertex == 2

\* Vertex coordinates of the order of 1 and of the order of the tolerance EPS.
Scales == {One, Num(6, 1, -10)}

VerticesAt(scale) ==
    {Point(Rat(NMul(NInt(x), scale)), Rat(NMul(NInt(y), scale)), "") :
         x \in 0..MaxVertex, y \in 0..MaxVertex}

\* The triangle of tests/test_triangles.py.
TestTriangle == TriangleMetrics(Point(R(0), R(0), "A"), Point(R(4), R(0), "B"),
                                Point(R(0), R(3), "C"))

\* The first vertex is taken on the x-axis.
Triangles ==
    {TestTriangle} \cup
    UNION {{TriangleMetrics(a, b, c) : a \in {p \in VerticesAt(scale) : p.y = R(0)},
                                        b \in VerticesAt(scale),
                                        c \in VerticesAt(scale)} : scale \in Scales}

\* The n x n identity matrix (the default of the UI's matrix input).
Identity(n) == [i \in 1..n |-> [j \in 1..n |-> IF i = j THEN R(1) ELSE R(0)]]

\* Matrix entries.
Entries == {R(-1), R(2)}

Dims == {1, 2}

\* Every matrix of one or two rows and columns over Entries, a 2x3 and a 3x2
\* matrix, a matrix of one empty row, the empty list and a ragged list.
Matrices ==
    UNION {[1..rows -> [1..cols -> Entries]] : rows \in Dims, cols \in Dims}
    \cup {<<<<R(1), R(2), R(3)>>, <<R(4), R(5), R(6)>>>>,
          <<<<R(1), R(0)>>, <<R(0), R(1)>>, <<R(2), R(-1)>>>>,
          <<<< >>>>,
          << >>,
          <<<<R(1), R(2)>>, <<R(3)>>>>}

\* Entry scales: det of a scaled 2x2 matrix is of the order of 1, of 1e-8
\* (above EPS) and of 1e-10 (below EPS).
MatrixScales == {One, Num(1, 1, -4), Num(1, 1, -5)}

\* Every 2x2 matrix over -1, 0, 1, 2 at each scale; 1x1 and 2x2 matrices
\* with det at, just below and just above EPS; 3x3 matrices; a 2x3 matrix.
SquareInputs ==
    UNION {{[i \in 1..2 |-> [j \in 1..2 |-> Rat(NMul(m[i][j], scale))]] :
                m \in [1..2 -> [1..2 -> {NInt(-1), NInt(0), NInt(1), NInt(2)}]]} :
           scale \in MatrixScales}
    \cup {<<<<R(0)>>>>, <<<<R(2)>>>>, <<<<EPS>>>>,
          <<<<EPS, R(0)>>, <<R(0), R(1)>>>>,
          <<<<RNeg(EPS), R(0)>>, <<R(0), R(1)>>>>,
          <<<<Rat(Num(5, 1, -10)), R(0)>>, <<R(0), R(1)>>>>,
          <<<<Rat(Num(2, 1, -9)), R(0)>>, <<R(0), R(1)>>>>,
          <<<<R(1), R(2), R(3)>>, <<R(4), R(5), R(6)>>, <<R(7), R(8), R(9)>>>>,
          <<<<R(2), R(0), R(1)>>, <<R(1), R(1), R(0)>>, <<R(0), R(3), R(1)>>>>,
          <<<<R(1), R(2), R(3)>>, <<R(4), R(5), R(6)>>>>}

\* Every 2x2 matrix over -1, 0, 2; 3x3 matrices; matrices of other shapes.
TransformInputs ==
    [1..2 -> [1..2 -> {R(-1), R(0), R(2)}]]
    \cup {Identity(3),
          <<<<R(2), R(0), R(1)>>, <<R(1), R(1), R(0)>>, <<R(0), R(3), R(1)>>>>,
          <<<<R(1), R(2), R(3)>>, <<R(4), R(5), R(6)>>>>,
          <<<<R(1), R(2)>>, <<R(3), R(4)>>, <<R(5), R(6)>>>>,
          <<<<R(2)>>>>,
          Identity(4)}

\* Point sequences of length 0, 1 and 2.
PointSeqs ==
    UNION {[1..n -> {Point(R(0), R(0), "A"), Point(R(1), R(2), "B"), Point(R(-1), R(1), "")}] :
           n \in 0..2}

Pivots == {None, Point(R(1), R(1), "P"), Point(R(0), R(2), "")}

Factors == {R(-1), R(0), R(2), Rat(Num(1, 2, 0))}

\* The identity, a translation, a shear with scaling, a projective map whose
\* third row vanishes at (1, 2), a matrix with a zero third row, a 2x2 and a
\* 2x3 matrix.
AffineInputs ==
    {Identity(3),
     <<<<R(1), R(0), R(2)>>, <<R(0), R(1), R(-1)>>, <<R(0), R(0), R(1)>>>>,
     <<<<R(2), R(1), R(0)>>, <<R(0), R(-1), R(1)>>, <<R(0), R(0), R(2)>>>>,
     <<<<R(1), R(0), R(0)>>, <<R(0), R(1), R(0)>>, <<R(1), R(1), R(-3)>>>>,
     <<<<R(1), R(0), R(0)>>, <<R(0), R(1), R(0)>>, <<R(0), R(0), R(0)>>>>,
     Identity(2),
     <<<<R(1), R(2), R(3)>>, <<R(4), R(5), R(6)>>>>}

Expressions ==
    {"x", "2*x", "x + x", "x + 1", "x**2", "(x**2 - 1)/(x - 1)"}

\* No samples (the default), and lists of one and two of -1, 0, 1, 2.
SampleLists == UNION {[1..n -> {R(-1), R(0), R(1), R(2)}] : n \in 0..2}

\* Element sequences handed to the renderer that no operation emitted.
ElementSeqs ==
    {<< >>,
     <<PlotElement("text", [label |-> "note"])>>,
     <<PlotElement("text", [label |-> "note"]),
       PlotElement("point", [coords |-> <<R(0), R(0)>>])>>,
     <<PlotElement("angle", [value |-> R(0)])>>,
     <<PlotElement("circle", [center |-> <<R(0), R(0)>>])>>,
     <<PlotElement("area", [points |-> <<<<R(0), R(0)>>>>, baseline |-> R(0)]),
       PlotElement("vector", [points |-> <<<<R(0), R(0)>>, <<R(1), R(0)>>>>])>>}

\* A float that added to itself is beyond the floats: 1e308.
Vast == <<<<1, 1, 308>>, Zero, Zero>>

\* Points far from the origin.
HugePoints == {Point(x, R(0), "") : x \in {R(0), Huge}}

\* Points farther from the origin.
VastPoints == {Point(x, R(0), "") : x \in {R(0), Vast, RNeg(Vast)}}

\* The pair of test_distance_between_points.
DistanceTestPair == <<Point(R(1), R(2), "A"), Point(R(4), R(6), "B")>>

SegmentEnds == (Grid \X Grid) \cup (TinyGrid \X TinyGrid) \cup TestPairs
               \cup {DistanceTestPair} \cup (HugePoints \X HugePoints)
               \cup (VastPoints \X VastPoints)

\* The fixed points of a locus: the first on the x-axis.
LocusPairs == {pp \in Grid \X Grid : pp[1].y = R(0)} \cup TestPairs

\* Ratio parts, one of them negative.
LocusRatios == Ratios \cup {<<R(-1), R(2)>>}

----------------------------------------------------------------------------
(* The calls *)

Init ==
    /\ op = "none"
    /\ args = << >>
    /\ res = NoResult

\* The operation returned a ComputationResult.
ReturnedResult == res.status \notin {"none", "raised", "built", "returned"}

\* The caller takes the outcome; every entity of the request is discarded.
Discard ==
    /\ op # "none"
    /\ op' = "none"
    /\ args' = << >>
    /\ res' = NoResult

SectionPoint ==
    \E pp \in PointPairs, ratio \in Ratios, external \in BOOLEAN :
        /\ op = "none"
        /\ op' = "section_point"
        /\ args' = [a |-> pp[1], b |-> pp[2], ratio |-> ratio, external |-> external]
        /\ res' = section_point(pp[1], pp[2], ratio, external)

FromPoints ==
    \E pp \in PointPairs :
        /\ op = "none"
        /\ op' = "Line.from_points"
        /\ args' = [p1 |-> pp[1], p2 |-> pp[2]]
        /\ res' = Built(from_points(pp[1], pp[2], ""))

FromSlopeIntercept ==
    \E m \in Slopes, c \in Ints :
        /\ op = "none"
        /\ op' = "Line.from_slope_intercept"
        /\ args' = [slope |-> m, intercept |-> c]
        /\ res' = Built(from_slope_intercept(m, c, ""))

FromGeneral ==
    \E A \in Coefs \cup {Tiny}, B \in Coefs \cup {Tiny}, C \in Cs :
        /\ op = "none"
        /\ op' = "Line.from_general"
        /\ args' = [A |-> A, B |-> B, C |-> C]
        /\ res' = Built(from_general(A, B, C, ""))

LineFromPoints ==
    \E pp \in PointPairs :
        /\ op = "none"
        /\ op' = "line_from_points"
        /\ args' = [p1 |-> pp[1], p2 |-> pp[2]]
        /\ res' = line_from_points(pp[1], pp[2])

Intersection ==
    \E line1 \in Lines, line2 \in Lines :
        /\ op = "none"
        /\ op' = "intersection"
        /\ args' = [line1 |-> line1, line2 |-> line2]
        /\ res' = intersection(line1, line2)

AngleBetweenLines ==
    \E line1 \in Lines, line2 \in Lines :
        /\ op = "none"
        /\ op' = "angle_between_lines"
        /\ args' = [line1 |-> line1, line2 |-> line2]
        /\ res' = angle_between_lines(line1, line2)

DistanceFromPoint ==
    \E line \in MetricLines, point \in Grid :
        /\ op = "none"
        /\ op' = "distance_from_point"
        /\ args' = [line |-> line, point |-> point]
        /\ res' = distance_from_point(line, point)

FootOfPerpendicular ==
    \E line \in MetricLines, point \in Grid :
        /\ op = "none"
        /\ op' = "foot_of_perpendicular"
        /\ args' = [line |-> line, point |-> point]
        /\ res' = foot_of_perpendicular(line, point)

AngleBisectors ==
    \E pr \in BisectorPairs :
        /\ op = "none"
        /\ op' = "angle_bisectors"
        /\ args' = [line1 |-> pr[1], line2 |-> pr[2]]
        /\ res' = angle_bisectors(pr[1], pr[2])

TangentsFromExternalPoint ==
    \E ci \in TangentInputs, first \in {1, 2} :
        /\ op = "none"
        /\ op' = "tangents_from_external_point"
        /\ args' = [circle |-> ci[1], point |-> ci[2]]
        /\ res' = tangents_from_external_point(ci[1], ci[2], first)

LineCircleIntersection ==
    \E circle \in Circles, line \in Lines :
        /\ op = "none"
        /\ op' = "line_circle_intersection"
        /\ args' = [circle |-> circle, line |-> line]
        /\ res' = line_circle_intersection(circle, line)

CircleCircleIntersection ==
    \E circle1 \in Circles, circle2 \in Circles :
        /\ op = "none"
        /\ op' = "circle_circle_intersection"
        /\ args' = [circle1 |-> circle1, circle2 |-> circle2]
        /\ res' = circle_circle_intersection(circle1, circle2)

RadicalAxis ==
    \E circle1 \in Circles, circle2 \in Circles, found \in BOOLEAN :
        /\ op = "none"
        /\ op' = "radical_axis"
        /\ args' = [circle1 |-> circle1, circle2 |-> circle2]
        /\ res' = radical_axis(circle1, circle2, found)

CircleFromCenterRadius ==
    \E center \in Grid, radius \in Ints \cup RadiusInputs \cup {Tiny} :
        /\ op = "none"
        /\ op' = "Circle.from_center_radius"
        /\ args' = [center |-> center, radius |-> radius]
        /\ res' = BuiltCircle(from_center_radius(center, radius, ""))

CircleFromGeneralForm ==
    \E A \in Coefs \cup {Tiny}, B \in Coefs, C \in Cs, D \in Cs, E \in Cs :
        /\ op = "none"
        /\ op' = "Circle.from_general_form"
        /\ args' = [A |-> A, B |-> B, C |-> C, D |-> D, E |-> E]
        /\ res' = BuiltCircle(from_general_form(A, B, C, D, E, ""))

CircleInput ==
    \E center \in Ints \X Ints, radius \in RadiusInputs :
        /\ op = "none"
        /\ op' = "_circle_input"
        /\ args' = [center |-> center, radius |-> radius]
        /\ res' = BuiltCircle(_circle_input("C", center, radius))

ParabolaY2 ==
    \E a \in AxisInputs :
        /\ op = "none"
        /\ op' = "parabola_y2_4ax"
        /\ args' = [a |-> a]
        /\ res' = parabola_y2_4ax(a)

ParabolaX2 ==
    \E a \in AxisInputs :
        /\ op = "none"
        /\ op' = "parabola_x2_4ay"
        /\ args' = [a |-> a]
        /\ res' = parabola_x2_4ay(a)

EllipseStandard ==
    \E a \in AxisInputs, b \in AxisInputs :
        /\ op = "none"
        /\ op' = "ellipse_standard"
        /\ args' = [a |-> a, b |-> b]
        /\ res' = ellipse_standard(a, b)

HyperbolaStandard ==
    \E a \in AxisInputs, b \in AxisInputs :
        /\ op = "none"
        /\ op' = "hyperbola_standard"
        /\ args' = [a |-> a, b |-> b]
        /\ res' = hyperbola_standard(a, b)

ClassifyGeneralQuadratic ==
    \E q \in Quadratics :
        /\ op = "none"
        /\ op' = "classify_general_quadratic"
        /\ args' = q
        /\ res' = classify_general_quadratic(q.A, q.B, q.C, q.D, q.E, q.F)

LineConicIntersection ==
    \E line \in Lines, coeffs \in Conics :
        /\ op = "none"
        /\ op' = "line_conic_intersection"
        /\ args' = [line |-> line, coeffs |-> coeffs]
        /\ res' = line_conic_intersection(line, coeffs)

Classification ==
    \E t \in Triangles :
        /\ op = "none"
        /\ op' = "TriangleMetrics.classification"
        /\ args' = [triangle |-> t]
        /\ res' = Result("returned", "", classification(t), << >>, {})

Summary ==
    \E t \in Triangles :
        /\ op = "none"
        /\ op' = "TriangleMetrics.summary"
        /\ args' = [triangle |-> t]
        /\ res' = summary(t)

MatrixAddition ==
    \E a \in Matrices, b \in Matrices :
        /\ op = "none"
        /\ op' = "matrix_addition"
        /\ args' = [a |-> a, b |-> b]
        /\ res' = matrix_addition(a, b)

MatrixMultiplication ==
    \E a \in Matrices, b \in Matrices :
        /\ op = "none"
        /\ op' = "matrix_multiplication"
        /\ args' = [a |-> a, b |-> b]
        /\ res' = matrix_multiplication(a, b)

MatrixInverse ==
    \E matrix \in SquareInputs :
        /\ op = "none"
        /\ op' = "matrix_inverse"
        /\ args' = [matrix |-> matrix]
        /\ res' = matrix_inverse(matrix)

\* matrix_multiplication(M, matrix_inverse(M).payload["inverse"]); indexing
\* a payload without an inverse raises KeyError.
InverseRoundTrip ==
    \E matrix \in SquareInputs :
        /\ op = "none"
        /\ op' = "inverse_round_trip"
        /\ args' = [matrix |-> matrix, inverse |-> matrix_inverse(matrix)]
        /\ res' = IF "inverse" \in DOMAIN matrix_inverse(matrix).payload
                  THEN matrix_multiplication(matrix, matrix_inverse(matrix).payload.inverse)
                  ELSE Raised("KeyError")

MatrixTransform ==
    \E matrix \in TransformInputs, shape \in {"unit_circle", "grid"} :
        /\ op = "none"
        /\ op' = "matrix_transform"
        /\ args' = [matrix |-> matrix, shape |-> shape]
        /\ res' = matrix_transform(matrix, shape)

ApplyTranslation ==
    \E points \in PointSeqs, dx \in Factors, dy \in Factors :
        /\ op = "none"
        /\ op' = "apply_translation"
        /\ args' = [points |-> points, dx |-> dx, dy |-> dy]
        /\ res' = apply_translation(points, dx, dy)

ApplyRotation ==
    \E points \in PointSeqs, angle \in {-90, 0, 90, 180, 270, 450}, pivot \in Pivots :
        /\ op = "none"
        /\ op' = "apply_rotation"
        /\ args' = [points |-> points, angle |-> angle, pivot |-> pivot]
        /\ res' = apply_rotation(points, angle, pivot)

ApplyScaling ==
    \E points \in PointSeqs, sx \in Factors, sy \in Factors, pivot \in Pivots :
        /\ op = "none"
        /\ op' = "apply_scaling"
        /\ args' = [points |-> points, sx |-> sx, sy |-> sy, pivot |-> pivot]
        /\ res' = apply_scaling(points, sx, sy, pivot)

ApplyReflection ==
    \E points \in PointSeqs, line \in Lines :
        /\ op = "none"
        /\ op' = "apply_reflection"
        /\ args' = [points |-> points, line |-> line]
        /\ res' = apply_reflection(points, line)

ApplyAffine ==
    \E matrix \in AffineInputs, points \in PointSeqs :
        /\ op = "none"
        /\ op' = "apply_affine"
        /\ args' = [points |-> points, matrix |-> matrix]
        /\ res' = apply_affine(matrix, points)

VerifyIdentity ==
    \E lhs \in Expressions, rhs \in Expressions, samples \in SampleLists :
        /\ op = "none"
        /\ op' = "verify_identity"
        /\ args' = [lhs |-> lhs, rhs |-> rhs, samples |-> samples]
        /\ res' = verify_identity(lhs, rhs, samples)

\* The interface renders the plot of the result it holds; without a result it
\* renders a sequence of its own.
BuildFigure ==
    /\ op # "build_figure"
    /\ \E elements \in (IF ReturnedResult THEN {res.plot} ELSE ElementSeqs) :
           /\ op' = "build_figure"
           /\ args' = [elements |-> elements, emitted |-> ReturnedResult]
           /\ res' = build_figure(elements)

Distance ==
    \E pp \in SegmentEnds :
        /\ op = "none"
        /\ op' = "distance"
        /\ args' = [a |-> pp[1], b |-> pp[2]]
        /\ res' = distance(pp[1], pp[2])

Midpoint ==
    \E pp \in SegmentEnds :
        /\ op = "none"
        /\ op' = "midpoint"
        /\ args' = [a |-> pp[1], b |-> pp[2]]
        /\ res' = midpoint(pp[1], pp[2])

PerpendicularBisector ==
    \E pp \in PointPairs :
        /\ op = "none"
        /\ op' = "perpendicular_bisector"
        /\ args' = [a |-> pp[1], b |-> pp[2]]
        /\ res' = perpendicular_bisector(pp[1], pp[2])

ApolloniusCircle ==
    \E pp \in LocusPairs, ratio \in LocusRatios :
        /\ op = "none"
        /\ op' = "apollonius_circle"
        /\ args' = [a |-> pp[1], b |-> pp[2], ratio |-> ratio]
        /\ res' = apollonius_circle(pp[1], pp[2], ratio)

PointsNext == SectionPoint \/ Discard

LinesNext ==
    \/ FromPoints
    \/ FromSlopeIntercept
    \/ FromGeneral
    \/ LineFromPoints
    \/ Intersection
    \/ AngleBetweenLines
    \/ DistanceFromPoint
    \/ FootOfPerpendicular
    \/ AngleBisectors
    \/ Discard

ConstructNext ==
    \/ FromPoints
    \/ FromSlopeIntercept
    \/ FromGeneral
    \/ LineFromPoints
    \/ Discard

MetricNext ==
    \/ DistanceFromPoint
    \/ FootOfPerpendicular
    \/ Discard

CirclesNext == TangentsFromExternalPoint \/ Discard

RadicalNext == RadicalAxis \/ Discard

CircleBuildNext ==
    \/ CircleFromCenterRadius
    \/ CircleFromGeneralForm
    \/ CircleInput
    \/ Discard

ConicsNext ==
    \/ ParabolaY2
    \/ ParabolaX2
    \/ EllipseStandard
    \/ HyperbolaStandard
    \/ Discard

QuadraticNext ==
    \/ ClassifyGeneralQuadratic
    \/ LineConicIntersection
    \/ Discard

TrianglesNext ==
    \/ Classification
    \/ Summary
    \/ Discard

MatricesNext ==
    \/ MatrixAddition
    \/ MatrixMultiplication
    \/ MatrixInverse
    \/ InverseRoundTrip
    \/ MatrixTransform
    \/ Discard

TransformsNext ==
    \/ ApplyTranslation
    \/ ApplyRotation
    \/ ApplyScaling
    \/ ApplyReflection
    \/ ApplyAffine
    \/ Discard

TrigNext ==
    \/ VerifyIdentity
    \/ Discard

MeetNext ==
    \/ LineCircleIntersection
    \/ CircleCircleIntersection
    \/ Discard

\* Operations whose results carry plot elements, and their rendering.
PlotNext ==
    \/ BuildFigure
    \/ FootOfPerpendicular
    \/ EllipseStandard
    \/ HyperbolaStandard
    \/ LineConicIntersection
    \/ Summary
    \/ MatrixTransform
    \/ ApplyReflection
    \/ Discard

SegmentNext ==
    \/ Distance
    \/ Midpoint
    \/ Discard

LocusNext ==
    \/ PerpendicularBisector
    \/ ApolloniusCircle
    \/ Discard

Next == PointsNext \/ LinesNext \/ CirclesNext \/ MeetNext \/ RadicalNext
        \/ CircleBuildNext \/ ConicsNext \/ QuadraticNext
        \/ TrianglesNext \/ MatricesNext \/ TransformsNext
        \/ TrigNext \/ PlotNext \/ SegmentNext \/ LocusNext

SpecPoints == Init /\ [][PointsNext]_vars

SpecLines == Init /\ [][LinesNext]_vars

SpecConstruct == Init /\ [][ConstructNext]_vars

SpecMetric == Init /\ [][MetricNext]_vars

SpecCircles == Init /\ [][CirclesNext]_vars

SpecMeet == Init /\ [][MeetNext]_vars

SpecRadical == Init /\ [][RadicalNext]_vars

SpecCircleBuild == Init /\ [][CircleBuildNext]_vars

SpecConics == Init /\ [][ConicsNext]_vars

SpecQuadratic == Init /\ [][QuadraticNext]_vars

SpecTriangles == Init /\ [][TrianglesNext]_vars

SpecMatrices == Init /\ [][MatricesNext]_vars

SpecTransforms == Init /\ [][TransformsNext]_vars

SpecTrig == Init /\ [][TrigNext]_vars

SpecPlot == Init /\ [][PlotNext]_vars

SpecSegment == Init /\ [][SegmentNext]_vars

SpecLocus == Init /\ [][LocusNext]_vars

Spec == Init /\ [][Next]_vars

----------------------------------------------------------------------------
(* Claims *)

\* A1*B2 - A2*B1 of the two lines of an intersection call.
ArgDet == RSub(RMul(args.line1.A, args.line2.B), RMul(args.line2.A, args.line1.B))

OnLine(l, x, y) == RAdd(RAdd(RMul(l.A, x), RMul(l.B, y)), l.C) = R(0)

\* C1: for two valid lines with A1*B2 - A2*B1 = 0, intersection returns status
\* "warning" with the tag parallel_lines and no point in the payload; it never
\* raises.
C1_ParallelLinesWarn ==
    (op = "intersection" /\ ArgDet = R(0))
        => /\ res.status = "warning"
           /\ "parallel_lines" \in res.warnings
           /\ "point" \notin DOMAIN res.payload

\* C2: for two valid lines with A1*B2 - A2*B1 # 0, intersection returns status
\* "ok" and payload point (x, y) solves both line equations.
C2_UniqueIntersection ==
    (op = "intersection" /\ ArgDet # R(0))
        => /\ res.status = "ok"
           /\ "point" \in DOMAIN res.payload
           /\ OnLine(args.line1, res.payload.point[1], res.payload.point[2])
           /\ OnLine(args.line2, res.payload.point[1], res.payload.point[2])

InternalOk == op = "section_point" /\ ~args.external /\ res.status = "ok"

SectionTestInput ==
    /\ op = "section_point"
    /\ ~args.external
    /\ as_tuple(args.a) = <<R(0), R(0)>>
    /\ as_tuple(args.b) = <<R(4), R(0)>>
    /\ args.ratio = <<R(1), R(3)>>

\* u*(P - A) = v*(B - P): the point P divides AB with AP : PB = v : u.
Divides(u, v) ==
    /\ RMul(u, RSub(res.payload.point.x, args.a.x))
         = RMul(v, RSub(args.b.x, res.payload.point.x))
    /\ RMul(u, RSub(res.payload.point.y, args.a.y))
         = RMul(v, RSub(args.b.y, res.payload.point.y))

\* C3 as stated: internal section_point(A, B, (m, n)) returns the point P with
\* AP : PB = m : n; for (0,0), (4,0), (1,3) it is (1, 0).
C3_Original ==
    /\ InternalOk => Divides(args.ratio[2], args.ratio[1])
    /\ (SectionTestInput /\ res.status = "ok")
          => (res.payload.point.x = R(1) /\ res.payload.point.y = R(0))

\* C3 amended: internal section_point(A, B, (m, n)) returns the point P with
\* AP : PB = n : m; for (0,0), (4,0), (1,3) it is (3, 0).
C3_Amended ==
    /\ InternalOk => Divides(args.ratio[1], args.ratio[2])
    /\ SectionTestInput
          => (res.status = "ok" /\ res.payload.point.x = R(3)
              /\ res.payload.point.y = R(0))

C3_Witness ==
    /\ InternalOk
    /\ args.ratio[1] # args.ratio[2]
    /\ args.ratio[1] # R(0)
    /\ args.ratio[2] # R(0)
    /\ as_tuple(args.a) # as_tuple(args.b)

\* C4: internal section_point with m + n # 0 returns status "ok" and the point
\* ((m*A.x + n*B.x)/(m+n), (m*A.y + n*B.y)/(m+n)); for (0,0), (4,0), (1,3) the
\* payload point has x = 3 and y = 0.
C4_InternalFormula ==
    /\ (op = "section_point" /\ ~args.external
        /\ RAdd(args.ratio[1], args.ratio[2]) # R(0))
          => /\ res.status = "ok"
             /\ RMul(res.payload.point.x, RAdd(args.ratio[1], args.ratio[2]))
                  = RAdd(RMul(args.ratio[1], args.a.x), RMul(args.ratio[2], args.b.x))
             /\ RMul(res.payload.point.y, RAdd(args.ratio[1], args.ratio[2]))
                  = RAdd(RMul(args.ratio[1], args.a.y), RMul(args.ratio[2], args.b.y))
    /\ SectionTestInput
          => (RLeq(RAbs(RSub(res.payload.point.x, R(3))), EPS)
              /\ RLeq(RAbs(res.payload.point.y), EPS))

C4_Witness == SectionTestInput /\ res.status = "ok"

\* C5: section_point with external = True and m = n yields a status "error"
\* result, not an uncaught division by zero.
C5_ExternalEqualRatioIsError ==
    (op = "section_point" /\ args.external /\ args.ratio[1] = args.ratio[2])
        => res.status = "error"

ArgsDistinct == as_tuple(args.p1) # as_tuple(args.p2)

FromPointsContract ==
    /\ (op = "Line.from_points" /\ ~ArgsDistinct) => res.exc = "ValueError"
    /\ (op = "Line.from_points" /\ ArgsDistinct)
          => /\ res.status = "built"
             /\ res.payload.line.A = RSub(args.p1.y, args.p2.y)
             /\ res.payload.line.B = RSub(args.p2.x, args.p1.x)
             /\ res.payload.line.C = RSub(RMul(args.p1.x, args.p2.y),
                                          RMul(args.p2.x, args.p1.y))
             /\ OnLine(res.payload.line, args.p1.x, args.p1.y)
             /\ OnLine(res.payload.line, args.p2.x, args.p2.y)

ReportsSlope ==
    /\ res.status = "ok"
    /\ "slope" \in DOMAIN res.payload.line
    /\ RMul(res.payload.line.slope, RSub(args.p2.x, args.p1.x))
         = RSub(args.p2.y, args.p1.y)

\* C6: Line.from_points fails on equal points and otherwise returns
\* (y1 - y2, x2 - x1, x1*y2 - x2*y1), a line through both points; for
\* x1 # x2 line_from_points reports the slope (y2 - y1)/(x2 - x1).
C6_FromPoints ==
    /\ FromPointsContract
    /\ (op = "line_from_points" /\ args.p1.x # args.p2.x) => ReportsSlope

\* The part of C6 that the constructors keep: the contract of from_points on
\* every pair of points, and the slope (y2 - y1)/(x2 - x1) reported by
\* line_from_points whenever |x2 - x1| > EPS.
FromPointsAwayFromVertical ==
    /\ FromPointsContract
    /\ (op = "line_from_points" /\ RLt(EPS, RAbs(RSub(args.p2.x, args.p1.x))))
          => ReportsSlope

\* C7: every Line the engine constructs has A and B not both within EPS of
\* zero: from_general fails when max(|A|, |B|) <= EPS, and from_points,
\* from_slope_intercept and the two bisectors of angle_bisectors never yield a
\* line with |A| <= EPS and |B| <= EPS.
C7_LineInvariant ==
    /\ (op \in {"Line.from_points", "Line.from_slope_intercept", "Line.from_general"}
        /\ res.status = "built") => LineInvariant(res.payload.line)
    /\ (op = "Line.from_general" /\ RLeq(RAbs(args.A), EPS) /\ RLeq(RAbs(args.B), EPS))
          => res.exc = "ValueError"
    /\ (op = "angle_bisectors" /\ res.status = "ok")
          => (LineInvariant(res.payload.internal) /\ LineInvariant(res.payload.external))

\* C8: angle_between_lines returns status "ok" with the non-obtuse angle: 0
\* for two vertical lines, 90 for exactly one, otherwise
\* atan(|(m2 - m1)/(1 + m1*m2)|), for every pair of lines, without raising.
C8_AngleBetweenLines ==
    op = "angle_between_lines"
        => /\ res.status = "ok"
           /\ LET a == res.payload.angle_degrees
                  v1 == IsVertical(args.line1)
                  v2 == IsVertical(args.line2)
                  m1 == slope(args.line1)
                  m2 == slope(args.line2)
              IN  /\ (v1 /\ v2) => a = Angle(FALSE, R(0))
                  /\ (v1 # v2) => a = Angle(TRUE, R(0))
                  /\ (~v1 /\ ~v2)
                        => /\ ~a.deg90
                           /\ RSign(a.tan) >= 0
                           /\ RMul(a.tan, RAbs(RAdd(R(1), RMul(m1, m2))))
                                = RAbs(RSub(m2, m1))

\* PF is perpendicular to the line: P - F is parallel to the normal (A, B).
Perp(l, P, F) ==
    RSub(RMul(RSub(P.x, F[1]), l.B), RMul(RSub(P.y, F[2]), l.A)) = R(0)

\* C9: for a valid line, normalized or not, foot_of_perpendicular returns a
\* point F of the line with PF perpendicular to it; distance_from_point returns
\* status "ok" with |A*x0 + B*y0 + C| / sqrt(A^2 + B^2), the length of PF, and
\* plots the foot F and the segment from P to F.
C9_FootAndDistance ==
    /\ op = "foot_of_perpendicular"
          => /\ res.status = "ok"
             /\ OnLine(args.line, res.payload.point[1], res.payload.point[2])
             /\ Perp(args.line, args.point, res.payload.point)
    /\ op = "distance_from_point"
          => /\ res.status = "ok"
             /\ RSign(res.payload.distance) >= 0
             /\ RMul(RSq(res.payload.distance),
                     RAdd(RSq(args.line.A), RSq(args.line.B)))
                  = RSq(RAdd(RAdd(RMul(args.line.A, args.point.x),
                                  RMul(args.line.B, args.point.y)), args.line.C))
             /\ \E i, j \in DOMAIN res.plot :
                   /\ res.plot[i].type = "point"
                   /\ res.plot[i].data.label = "F"
                   /\ OnLine(args.line, res.plot[i].data.coords[1],
                             res.plot[i].data.coords[2])
                   /\ Perp(args.line, args.point, res.plot[i].data.coords)
                   /\ RAdd(RSq(RSub(args.point.x, res.plot[i].data.coords[1])),
                           RSq(RSub(args.point.y, res.plot[i].data.coords[2])))
                        = RSq(res.payload.distance)
                   /\ res.plot[j].type = "segment"
                   /\ res.plot[j].data.from = as_tuple(args.point)
                   /\ res.plot[j].data.to = res.plot[i].data.coords

C9_Witness ==
    /\ op = "distance_from_point"
    /\ res.status = "ok"
    /\ ~IsRational(res.payload.distance)
    /\ RAdd(RSq(args.line.A), RSq(args.line.B)) # R(1)
    /\ args.line.C # R(0)

\* C10: tangents_from_external_point returns status "warning" with tag
\* no_tangent for a point strictly inside the circle, status "ok" with one
\* tangent for a point of the circle and with two for a point outside; every
\* tangent passes through P at distance radius from the center.
C10_Tangents ==
    op = "tangents_from_external_point"
        => LET c == args.circle.center
               r2 == RSq(args.circle.radius)
               d2 == Dist2(args.point, c)
           IN  /\ RLt(d2, r2)
                     => (res.status = "warning" /\ "no_tangent" \in res.warnings)
               /\ d2 = r2 => (res.status = "ok" /\ Len(res.payload.tangents) = 1)
               /\ RLt(r2, d2) => (res.status = "ok" /\ Len(res.payload.tangents) = 2)
               /\ res.status = "ok"
                     => \A i \in DOMAIN res.payload.tangents :
                           LET t == res.payload.tangents[i]
                           IN  /\ OnLine(t, args.point.x, args.point.y)
                               /\ RSq(RAdd(RAdd(RMul(t.A, c.x), RMul(t.B, c.y)), t.C))
                                    = RMul(r2, RAdd(RSq(t.A), RSq(t.B)))

OnCircle(circle, pt) ==
    RAdd(RSq(RSub(pt[1], circle.center.x)), RSq(RSub(pt[2], circle.center.y)))
        = RSq(circle.radius)

\* r^2*(A^2 + B^2) - (A*h + B*k + C)^2 of a circle and a line: negative when
\* they have no common real point, zero when they touch.
LineDisc(circle, line) ==
    RSub(RMul(RSq(circle.radius), RAdd(RSq(line.A), RSq(line.B))),
         RSq(RAdd(RAdd(RMul(line.A, circle.center.x), RMul(line.B, circle.center.y)),
                  line.C)))

\* ((r1 + r2)^2 - d^2) * (d^2 - (r1 - r2)^2) of two distinct circles whose
\* centres are d apart: negative when they have no common real point, zero
\* when they touch.
CircleDisc(c1, c2) ==
    RMul(RSub(RSq(RAdd(c1.radius, c2.radius)), Dist2(c1.center, c2.center)),
         RSub(Dist2(c1.center, c2.center), RSq(RSub(c1.radius, c2.radius))))

\* The outcome of an intersection whose discriminant is disc: the warning
\* when it is negative, otherwise one or two points.
MeetContract(disc) ==
    /\ res.exc = "none"
    /\ RLt(disc, R(0))
          => (res.status = "warning" /\ "no_real_intersection" \in res.warnings)
    /\ ~RLt(disc, R(0))
          => /\ res.status = "ok"
             /\ "points" \in DOMAIN res.payload
             /\ Len(res.payload.points) = (IF disc = R(0) THEN 1 ELSE 2)
             /\ \A i, j \in DOMAIN res.payload.points :
                    i # j => res.payload.points[i] # res.payload.points[j]

LineCircleOnBoth ==
    res.status = "ok"
        => \A idx \in DOMAIN res.payload.points :
               /\ OnCircle(args.circle, res.payload.points[idx])
               /\ OnLine(args.line, res.payload.points[idx][1], res.payload.points[idx][2])

CircleCircleOnBoth ==
    res.status = "ok"
        => \A idx \in DOMAIN res.payload.points :
               /\ OnCircle(args.circle1, res.payload.points[idx])
               /\ OnCircle(args.circle2, res.payload.points[idx])

\* C11: for a valid circle and line, and for two distinct valid circles,
\* line_circle_intersection and circle_circle_intersection return status
\* "warning" with tag no_real_intersection exactly when the curves have no
\* common real point, otherwise status "ok" with the common points (one for
\* tangency, two otherwise), each on both curves; neither operation raises.
C11_NoRealIntersection ==
    /\ op = "line_circle_intersection"
          => (MeetContract(LineDisc(args.circle, args.line)) /\ LineCircleOnBoth)
    /\ (op = "circle_circle_intersection" /\ ~SameCircle(args.circle1, args.circle2))
          => (MeetContract(CircleDisc(args.circle1, args.circle2)) /\ CircleCircleOnBoth)

\* What C11 states, for the lines with |B| > EPS.
MeetAwayFromVertical ==
    /\ (op = "line_circle_intersection" /\ ~IsVertical(args.line))
          => (MeetContract(LineDisc(args.circle, args.line)) /\ LineCircleOnBoth)
    /\ (op = "circle_circle_intersection" /\ ~SameCircle(args.circle1, args.circle2))
          => (MeetContract(CircleDisc(args.circle1, args.circle2)) /\ CircleCircleOnBoth)

\* The power of the point (x, y) with respect to a circle.
Power(circle, x, y) ==
    RSub(RAdd(RSq(RSub(x, circle.center.x)), RSq(RSub(y, circle.center.y))),
         RSq(circle.radius))

\* Every point of the line l has equal power with respect to the two circles
\* of the call: checked at two points of l.
EqualPowerOn(l) ==
    \A idx \in {1, 2} :
        Power(args.circle1, sample_points(l)[idx].x, sample_points(l)[idx].y)
            = Power(args.circle2, sample_points(l)[idx].x, sample_points(l)[idx].y)

PayloadLine == Line(res.payload.line.A, res.payload.line.B, res.payload.line.C, "")

\* C12: radical_axis of two distinct circles, concentric circles of different
\* radii included, returns status "ok" with a valid line whose points have
\* equal power with respect to both circles; it does not raise.
C12_RadicalAxis ==
    (op = "radical_axis" /\ ~SameCircle(args.circle1, args.circle2))
        => /\ res.status = "ok"
           /\ LineInvariant(PayloadLine)
           /\ EqualPowerOn(PayloadLine)

\* What radical_axis does return whenever it returns: a valid line of equal
\* power.
RadicalAxisWhenReturned ==
    (op = "radical_axis" /\ res.status = "ok")
        => (LineInvariant(PayloadLine) /\ EqualPowerOn(PayloadLine))

\* (D^2 + E^2)/(4*A^2) - C/A of a from_general_form call with A # 0.
ArgRadiusSquared ==
    RSub(RDiv(RAdd(RSq(args.D), RSq(args.E)), RMul(R(4), RSq(args.A))),
         RDiv(args.C, args.A))

GeneralFormRejected ==
    \/ RLt(RAbs(args.A), EPS)
    \/ RLt(EPS, RAbs(RSub(args.A, args.B)))
    \/ RLeq(ArgRadiusSquared, R(0))

\* The two checked constructors reject what C13 says they reject and build a
\* circle of positive radius otherwise.
CheckedConstructors ==
    /\ op = "Circle.from_center_radius"
          => IF RLeq(args.radius, R(0)) THEN res.exc = "ValueError"
             ELSE res.status = "built" /\ res.payload.circle.radius = args.radius
    /\ op = "Circle.from_general_form"
          => IF GeneralFormRejected THEN res.exc = "ValueError"
             ELSE /\ res.status = "built"
                  /\ RSq(res.payload.circle.radius) = ArgRadiusSquared
                  /\ RLt(R(0), res.payload.circle.radius)

\* C13: every Circle handed to an engine operation has radius > 0:
\* from_center_radius rejects radius <= 0, from_general_form rejects unequal or
\* zero quadratic coefficients and a non-positive radius squared, and no
\* other construction path, the UI helper _circle_input included, produces a
\* circle with radius <= 0.
C13_PositiveRadius ==
    /\ CheckedConstructors
    /\ res.status = "built" /\ "circle" \in DOMAIN res.payload
          => RLt(R(0), res.payload.circle.radius)

IsParabola == op \in {"parabola_y2_4ax", "parabola_x2_4ay"}

IsCentral == op \in {"ellipse_standard", "hyperbola_standard"}

\* C14: the parabolas return status "error" exactly when a = 0, the ellipse
\* and the hyperbola exactly when a <= 0 or b <= 0; on every other numeric
\* input they return status "ok"; none of the four raises.
C14_StandardForms ==
    /\ IsParabola => res.status = (IF args.a = R(0) THEN "error" ELSE "ok")
    /\ IsCentral
          => res.status = (IF RLeq(args.a, R(0)) \/ RLeq(args.b, R(0))
                           THEN "error" ELSE "ok")

\* What C14 states, for semi-axes whose squares are floats.
StandardFormsInRange ==
    /\ IsParabola => res.status = (IF args.a = R(0) THEN "error" ELSE "ok")
    /\ (IsCentral /\ ~SquareOverflows(args.a) /\ ~SquareOverflows(args.b))
          => res.status = (IF RLeq(args.a, R(0)) \/ RLeq(args.b, R(0))
                           THEN "error" ELSE "ok")

EllipseOk == op = "ellipse_standard" /\ res.status = "ok"

\* The focal distance c reported as the abscissa of the first focus.
FocalC == res.payload.foci[1][1]

\* c^2 = |a^2 - b^2|, eccentricity = c / max(a, b) and semi_major = max(a, b).
EllipseMetrics ==
    EllipseOk
        => /\ RLeq(R(0), FocalC)
           /\ RSq(FocalC) = RAbs(RSub(RSq(args.a), RSq(args.b)))
           /\ res.payload.semi_major = (IF RLeq(args.b, args.a) THEN args.a ELSE args.b)
           /\ RMul(res.payload.eccentricity, res.payload.semi_major) = FocalC
           /\ RLeq(R(0), res.payload.eccentricity)
           /\ RLt(res.payload.eccentricity, R(1))

\* C15: for a, b > 0 ellipse_standard reports c with c^2 = |a^2 - b^2|,
\* eccentricity c / max(a, b), semi_major max(a, b), and the foci on the major
\* axis: (c, 0), (-c, 0) when a >= b and (0, c), (0, -c) when b > a; for a = 3,
\* b = 2 the foci are (sqrt 5, 0), (-sqrt 5, 0) and the eccentricity sqrt(5)/3.
C15_EllipseFoci ==
    /\ EllipseMetrics
    /\ EllipseOk
          => LET c == RSqrt(RAbs(RSub(RSq(args.a), RSq(args.b))))
             IN  res.payload.foci = (IF RLeq(args.b, args.a)
                                     THEN <<<<c, R(0)>>, <<RNeg(c), R(0)>>>>
                                     ELSE <<<<R(0), c>>, <<R(0), RNeg(c)>>>>)
    /\ (op = "ellipse_standard" /\ args.a = R(3) /\ args.b = R(2))
          => /\ res.status = "ok"
             /\ res.payload.foci = <<<<RSqrt(R(5)), R(0)>>, <<RNeg(RSqrt(R(5))), R(0)>>>>
             /\ RMul(res.payload.eccentricity, R(3)) = RSqrt(R(5))

\* B^2 - 4AC of the quadratic q.
Disc(q) == RSub(RSq(q.B), RMul(RMul(R(4), q.A), q.C))

\* Four times the determinant of the matrix of the quadratic q:
\* 4ACF + BDE - AE^2 - CD^2 - B^2F.
Det4(q) ==
    RSub(RSub(RSub(RAdd(RMul(RMul(RMul(R(4), q.A), q.C), q.F),
                        RMul(RMul(q.B, q.D), q.E)),
                   RMul(q.A, RSq(q.E))),
              RMul(q.C, RSq(q.D))),
         RMul(RSq(q.B), q.F))

\* With B^2 - 4AC < 0 the quadratic is a real ellipse when (A + C)*det < 0
\* and has no real point when (A + C)*det > 0.
RealEllipse(q) == RLt(Disc(q), R(0)) /\ RLt(RMul(RAdd(q.A, q.C), Det4(q)), R(0))

NoRealPoint(q) == RLt(Disc(q), R(0)) /\ RLt(R(0), RMul(RAdd(q.A, q.C), Det4(q)))

\* C16: classify_general_quadratic returns status "ok" with discriminant
\* B^2 - 4AC and the type "hyperbola" iff it is > 0, "parabola" iff it is = 0,
\* and for < 0 "ellipse" when the quadratic is a real ellipse (4x^2 + 9y^2 - 36
\* = 0 for one) and "imaginary ellipse" only when it has no real point.
C16_Classify ==
    op = "classify_general_quadratic"
        => /\ res.status = "ok"
           /\ res.payload.discriminant = Disc(args)
           /\ res.payload.type = "hyperbola" <=> RLt(R(0), Disc(args))
           /\ res.payload.type = "parabola" <=> Disc(args) = R(0)
           /\ RealEllipse(args) => res.payload.type = "ellipse"
           /\ res.payload.type = "imaginary ellipse" => NoRealPoint(args)

\* The part of C16 that holds: the discriminant and the three classes by its
\* sign, both labels of the negative class counted as the ellipse class.
ClassifyBySign ==
    op = "classify_general_quadratic"
        => /\ res.status = "ok"
           /\ res.payload.discriminant = Disc(args)
           /\ res.payload.type = "hyperbola" <=> RLt(R(0), Disc(args))
           /\ res.payload.type = "parabola" <=> Disc(args) = R(0)
           /\ res.payload.type \in {"ellipse", "imaginary ellipse"}
                  <=> RLt(Disc(args), R(0))

----------------------------------------------------------------------------
OnConic(coeffs, x, y) ==
    RAdd(RAdd(RAdd(RMul(Get(coeffs, "A"), RSq(x)), RMul(RMul(Get(coeffs, "B"), x), y)),
              RAdd(RMul(Get(coeffs, "C"), RSq(y)), RMul(Get(coeffs, "D"), x))),
         RAdd(RMul(Get(coeffs, "E"), y), Get(coeffs, "F"))) = R(0)

\* The returned points are at most two, distinct, and on the line and the conic.
ConicPointsOnBoth ==
    /\ Len(res.payload.points) <= 2
    /\ \A i \in DOMAIN res.payload.points :
           /\ OnLine(args.line, res.payload.points[i][1], res.payload.points[i][2])
           /\ OnConic(args.coeffs, res.payload.points[i][1], res.payload.points[i][2])
           /\ \A j \in DOMAIN res.payload.points :
                  i # j => res.payload.points[i] # res.payload.points[j]

\* Three points of the line.
LinePoints(line) ==
    IF line.B # R(0)
    THEN {<<R(x), RDiv(RNeg(RAdd(RMul(line.A, R(x)), line.C)), line.B)>> : x \in -1..1}
    ELSE {<<RDiv(RNeg(line.C), line.A), R(y)>> : y \in -1..1}

\* The line is not part of the conic (a conic that holds the whole line has no
\* finite list of common points): one of three points of the line is off it.
LineOffConic ==
    \E p \in LinePoints(args.line) : ~OnConic(args.coeffs, p[1], p[2])

\* C17: for a valid line and any coefficient map, line_conic_intersection does
\* not raise and returns status "ok" with the real common points of line and
\* conic: at most two, each on both curves, none left out, and the empty list
\* when the line misses the conic.
C17_LineConic ==
    (op = "line_conic_intersection" /\ LineOffConic)
        => /\ ~IsRaised(res)
           /\ res.status = "ok"
           /\ ConicPointsOnBoth
           /\ \A p \in Grid :
                  (OnLine(args.line, p.x, p.y) /\ OnConic(args.coeffs, p.x, p.y))
                      => \E i \in DOMAIN res.payload.points :
                             res.payload.points[i] = <<p.x, p.y>>

\* What C17 states, whenever the call returns.
LineConicWhenReturned ==
    (op = "line_conic_intersection" /\ LineOffConic /\ ~IsRaised(res))
        => /\ res.status = "ok"
           /\ ConicPointsOnBoth
           /\ \A p \in Grid :
                  (OnLine(args.line, p.x, p.y) /\ OnConic(args.coeffs, p.x, p.y))
                      => \E i \in DOMAIN res.payload.points :
                             res.payload.points[i] = <<p.x, p.y>>

\* The call raises only a TypeError, and only when no point is common.
LineConicRaises ==
    (op = "line_conic_intersection" /\ IsRaised(res))
        => /\ res.exc = "TypeError"
           /\ LineOffConic
           /\ \A p \in Grid : ~(OnLine(args.line, p.x, p.y)
                                /\ OnConic(args.coeffs, p.x, p.y))

----------------------------------------------------------------------------
ArgSides == side_lengths(args.triangle)

\* The index of a longest and of a shortest side of the argument triangle.
LongestSide == CHOOSE i \in 1..3 : \A j \in 1..3 : LengthLeq(ArgSides[j], ArgSides[i])

ShortestSide == CHOOSE i \in 1..3 : \A j \in 1..3 : LengthLeq(ArgSides[i], ArgSides[j])

\* longest^2 - (sum of the squares of the other two sides)
PythagoreanGap ==
    RSub(RMul(R(2), RSq(ArgSides[LongestSide])),
         RAdd(RAdd(RSq(ArgSides[1]), RSq(ArgSides[2])), RSq(ArgSides[3])))

\* C18: the classification is a function of the three side lengths:
\* equilateral iff longest - shortest <= 1e-9, isosceles iff two sides differ
\* by at most 1e-9, right iff |longest^2 - (sum of squares of the other two)|
\* <= 1e-6, scalene iff neither equilateral nor isosceles; so equilateral
\* implies isosceles and exactly one of isosceles and scalene is true.
C18_Classification ==
    op = "TriangleMetrics.classification"
        => /\ res.payload.equilateral
                  <=> CloseLengths(ArgSides[LongestSide], ArgSides[ShortestSide], EPS)
           /\ res.payload.isosceles
                  <=> \E i \in 1..3, j \in 1..3 :
                          i # j /\ CloseLengths(ArgSides[i], ArgSides[j], EPS)
           /\ res.payload.right <=> RLeq(RAbs(PythagoreanGap), RightTol)
           /\ res.payload.scalene
                  <=> (~res.payload.equilateral /\ ~res.payload.isosceles)
           /\ res.payload.equilateral => res.payload.isosceles
           /\ res.payload.isosceles # res.payload.scalene

\* A triangle with three different side lengths, two of them within 1e-9 of
\* each other and the longest more than 1e-9 above the shortest.
C18_Witness ==
    /\ op = "TriangleMetrics.classification"
    /\ \A i \in 1..3, j \in 1..3 : i # j => ArgSides[i] # ArgSides[j]
    /\ res.payload.isosceles
    /\ ~res.payload.equilateral
    /\ ~res.payload.scalene

----------------------------------------------------------------------------
\* x1(y2 - y3) + x2(y3 - y1) + x3(y1 - y2) for the argument triangle
VertexDeterminant ==
    RAdd(RAdd(RMul(args.triangle.a.x, RSub(args.triangle.b.y, args.triangle.c.y)),
              RMul(args.triangle.b.x, RSub(args.triangle.c.y, args.triangle.a.y))),
         RMul(args.triangle.c.x, RSub(args.triangle.a.y, args.triangle.b.y)))

\* C19: for three vertices that are not collinear, summary returns status "ok"
\* with area = (1/2)*|x1(y2 - y3) + x2(y3 - y1) + x3(y1 - y2)| and with the
\* mean of the vertices as centroid; for (0,0), (4,0), (0,3) the area is 6,
\* the centroid is (4/3, 1) and the triangle is classified as right.
C19_Summary ==
    /\ (op = "TriangleMetrics.summary" /\ VertexDeterminant # R(0))
          => /\ res.status = "ok"
             /\ RMul(R(2), res.payload.area) = RAbs(VertexDeterminant)
             /\ RMul(R(3), res.payload.centroid[1])
                    = RAdd(RAdd(args.triangle.a.x, args.triangle.b.x), args.triangle.c.x)
             /\ RMul(R(3), res.payload.centroid[2])
                    = RAdd(RAdd(args.triangle.a.y, args.triangle.b.y), args.triangle.c.y)
    /\ (op = "TriangleMetrics.summary" /\ args.triangle = TestTriangle)
          => /\ res.status = "ok"
             /\ res.payload.area = R(6)
             /\ res.payload.centroid = <<Rat(Num(4, 3, 0)), R(1)>>
             /\ res.payload.classification.right

\* A summary of a triangle whose vertices run clockwise.
C19_Witness ==
    /\ op = "TriangleMetrics.summary"
    /\ RLt(VertexDeterminant, R(0))
    /\ res.status = "ok"
    /\ RLt(R(0), res.payload.area)

\* The circumcenter of a summary is equidistant from the three vertices, at
\* the circumradius, and the orthocenter lies on the altitude from each vertex.
SummaryCenters ==
    (op = "TriangleMetrics.summary" /\ res.status = "ok")
        => /\ \A v \in {args.triangle.a, args.triangle.b, args.triangle.c} :
                  Dist2(Point(res.payload.circumcenter[1], res.payload.circumcenter[2], ""), v)
                      = RSq(res.payload.circumradius)
           /\ RAdd(RMul(RSub(res.payload.orthocenter[1], args.triangle.a.x),
                        RSub(args.triangle.b.x, args.triangle.c.x)),
                   RMul(RSub(res.payload.orthocenter[2], args.triangle.a.y),
                        RSub(args.triangle.b.y, args.triangle.c.y))) = R(0)
           /\ RAdd(RMul(RSub(res.payload.orthocenter[1], args.triangle.b.x),
                        RSub(args.triangle.c.x, args.triangle.a.x)),
                   RMul(RSub(res.payload.orthocenter[2], args.triangle.b.y),
                        RSub(args.triangle.c.y, args.triangle.a.y))) = R(0)

----------------------------------------------------------------------------
\* Both arguments are rectangular matrices.
ArgsRectangular == TwoDimensional(args.a) /\ TwoDimensional(args.b)

\* Row i of args.a times column j of args.b, term by term.
RowByColumn(i, j) ==
    LET Term(k) == IF k <= Len(args.b) THEN RMul(args.a[i][k], args.b[k][j]) ELSE R(0)
    IN  RAdd(RAdd(Term(1), Term(2)), Term(3))

\* C20: for rectangular matrices, matrix_addition returns status "error",
\* without raising, when the shapes differ and otherwise status "ok" with
\* the element-wise sum, of the same shape; matrix_multiplication returns
\* status "error", without raising, when the columns of a are not as many as
\* the rows of b and otherwise status "ok" with the rows(a) x columns(b)
\* row-by-column product.
C20_MatrixShapes ==
    /\ (op = "matrix_addition" /\ ArgsRectangular)
          => /\ ~IsRaised(res)
             /\ IF Shape(args.a) # Shape(args.b)
                THEN res.status = "error" /\ DOMAIN res.payload = {"message"}
                ELSE /\ res.status = "ok"
                     /\ Len(res.payload.result) = Len(args.a)
                     /\ \A i \in DOMAIN args.a :
                            /\ Len(res.payload.result[i]) = Len(args.a[i])
                            /\ \A j \in DOMAIN args.a[i] :
                                   RSub(res.payload.result[i][j], args.a[i][j]) = args.b[i][j]
    /\ (op = "matrix_multiplication" /\ ArgsRectangular)
          => /\ ~IsRaised(res)
             /\ IF Len(args.a[1]) # Len(args.b)
                THEN res.status = "error" /\ DOMAIN res.payload = {"message"}
                ELSE /\ res.status = "ok"
                     /\ Len(res.payload.result) = Len(args.a)
                     /\ \A i \in DOMAIN args.a :
                            /\ Len(res.payload.result[i]) = Len(args.b[1])
                            /\ \A j \in DOMAIN args.b[1] :
                                   res.payload.result[i][j] = RowByColumn(i, j)

\* A product of a 2x3 and a 3x2 matrix, which is 2x2.
C20_Witness ==
    /\ op = "matrix_multiplication"
    /\ ArgsRectangular
    /\ Shape(args.a) = <<2, 3>>
    /\ Shape(args.b) = <<3, 2>>
    /\ res.status = "ok"
    /\ Shape(res.payload.result) = <<2, 2>>

\* Lists that are not rectangular make both operations raise ValueError.
MatrixArgsNotRectangular ==
    (op \in {"matrix_addition", "matrix_multiplication"} /\ ~ArgsRectangular)
        => (IsRaised(res) /\ res.exc = "ValueError")

----------------------------------------------------------------------------
ArgSquare == TwoDimensional(args.matrix) /\ Len(args.matrix) = Len(args.matrix[1])

\* C21: for a square matrix with |det| <= 1e-9, the value 1e-9 itself and 0
\* included, matrix_inverse returns status "warning" with the tag
\* singular_matrix and no inverse; it does not raise; a matrix that is not
\* square gives status "error".
C21_SingularWarning ==
    op = "matrix_inverse"
        => /\ ~IsRaised(res)
           /\ ~ArgSquare => res.status = "error"
           /\ (ArgSquare /\ RLeq(RAbs(Determinant(args.matrix)), EPS))
                  => /\ res.status = "warning"
                     /\ res.warnings = {"singular_matrix"}
                     /\ "inverse" \notin DOMAIN res.payload

\* What C21 states, for |det| < 1e-9.
SingularBelowEps ==
    op = "matrix_inverse"
        => /\ ~IsRaised(res)
           /\ ~ArgSquare => res.status = "error"
           /\ (ArgSquare /\ RLt(RAbs(Determinant(args.matrix)), EPS))
                  => /\ res.status = "warning"
                     /\ res.warnings = {"singular_matrix"}
                     /\ "inverse" \notin DOMAIN res.payload
           /\ (ArgSquare /\ res.status # "warning")
                  => /\ res.status = "ok"
                     /\ Determinant(args.matrix) # R(0)

----------------------------------------------------------------------------
\* Every entry of the product is within 1e-6 of the identity's.
NearIdentity ==
    /\ res.status = "ok"
    /\ Len(res.payload.result) = Len(args.matrix)
    /\ \A i \in DOMAIN args.matrix :
           /\ Len(res.payload.result[i]) = Len(args.matrix)
           /\ \A j \in DOMAIN args.matrix :
                  RLeq(RAbs(RSub(res.payload.result[i][j], Identity(Len(args.matrix))[i][j])),
                       RightTol)

\* C22: for a square matrix M with det # 0, matrix_inverse(M) has status "ok"
\* with an inverse, and matrix_multiplication(M, inverse) is the identity of
\* the same size within 1e-6 per entry.
C22_RoundTrip ==
    (op = "inverse_round_trip" /\ ArgSquare /\ Determinant(args.matrix) # R(0))
        => /\ args.inverse.status = "ok"
           /\ "inverse" \in DOMAIN args.inverse.payload
           /\ NearIdentity

\* What C22 states, for the matrices that matrix_inverse inverts.
RoundTripWhenInverted ==
    (op = "inverse_round_trip" /\ args.inverse.status = "ok")
        => NearIdentity

----------------------------------------------------------------------------
\* The number of samples of the shape.
SampleCount == IF args.shape = "unit_circle" THEN CircleSamples ELSE GridSteps * GridSteps

\* Status "ok" with one image per sample, in sample order: image k is the
\* matrix applied to sample k of the "Original" plot element.
TransformedInOrder ==
    /\ res.status = "ok"
    /\ Len(res.payload.transformed) = SampleCount
    /\ Len(res.plot[1].data.points) = SampleCount
    /\ \A k \in 1..SampleCount :
           res.payload.transformed[k]
               = <<ImageCoord(args.matrix[1], res.plot[1].data.points[k], args.shape),
                   ImageCoord(args.matrix[2], res.plot[1].data.points[k], args.shape)>>

\* C23: for every 2x2 and every 3x3 matrix, with shape "unit_circle" (200
\* samples) or "grid" (25 points), matrix_transform returns status "ok" with
\* one image point per sample in sample order; a matrix that is not square,
\* or square of another size, gives status "error".
C23_Transform ==
    op = "matrix_transform"
        => IF Len(args.matrix) = Len(args.matrix[1]) /\ Len(args.matrix) \in {2, 3}
           THEN ~IsRaised(res) /\ TransformedInOrder
           ELSE res.status = "error"

\* What C23 states, for the 2x2 matrices.
TransformTwoByTwo ==
    op = "matrix_transform"
        => IF Len(args.matrix) = Len(args.matrix[1]) /\ Len(args.matrix) = 2
           THEN ~IsRaised(res) /\ TransformedInOrder
           ELSE IF Len(args.matrix) = Len(args.matrix[1]) /\ Len(args.matrix) = 3
           THEN IsRaised(res) /\ res.exc = "ValueError"
           ELSE res.status = "error"

----------------------------------------------------------------------------
TransformOps ==
    {"apply_translation", "apply_rotation", "apply_scaling", "apply_reflection",
     "apply_affine"}

\* The image sequence of the payload, under the key of the operation.
Images ==
    IF op = "apply_translation" THEN res.payload.translated
    ELSE IF op = "apply_rotation" THEN res.payload.rotated
    ELSE IF op = "apply_scaling" THEN res.payload.scaled
    ELSE IF op = "apply_reflection" THEN res.payload.reflected
    ELSE res.payload.transformed

ArgPivot == PivotOr(args.pivot)

\* q is the image of the input point p under the operation and its arguments.
IsImage(p, q) ==
    IF op = "apply_translation"
    THEN RSub(q[1], p.x) = args.dx /\ RSub(q[2], p.y) = args.dy
    ELSE IF op = "apply_rotation"
    THEN \* the pivot is fixed, and the turn from p to q has the given cosine and sine
         /\ RAdd(RMul(RSub(q[1], ArgPivot.x), RSub(p.x, ArgPivot.x)),
                 RMul(RSub(q[2], ArgPivot.y), RSub(p.y, ArgPivot.y)))
                = RMul(CosDeg(args.angle), Dist2(p, ArgPivot))
         /\ RSub(RMul(RSub(p.x, ArgPivot.x), RSub(q[2], ArgPivot.y)),
                 RMul(RSub(p.y, ArgPivot.y), RSub(q[1], ArgPivot.x)))
                = RMul(SinDeg(args.angle), Dist2(p, ArgPivot))
    ELSE IF op = "apply_scaling"
    THEN /\ RSub(q[1], ArgPivot.x) = RMul(args.sx, RSub(p.x, ArgPivot.x))
         /\ RSub(q[2], ArgPivot.y) = RMul(args.sy, RSub(p.y, ArgPivot.y))
    ELSE IF op = "apply_reflection"
    THEN \* the midpoint of p and q is on the mirror and pq is along its normal
         /\ OnLine(args.line, RDiv(RAdd(p.x, q[1]), R(2)), RDiv(RAdd(p.y, q[2]), R(2)))
         /\ RMul(RSub(q[1], p.x), args.line.B) = RMul(RSub(q[2], p.y), args.line.A)
    ELSE \* (X, Y, W) = M*(x, y, 1) and q = (X/W, Y/W)
         /\ Homogeneous(args.matrix, 3, p) # R(0)
         /\ RMul(q[1], Homogeneous(args.matrix, 3, p)) = Homogeneous(args.matrix, 1, p)
         /\ RMul(q[2], Homogeneous(args.matrix, 3, p)) = Homogeneous(args.matrix, 2, p)

\* One image per input point, in input order, and an "Original" plot element
\* with the input points in that order.
OrderPreserved ==
    /\ ~IsRaised(res)
    /\ res.status = "ok"
    /\ Len(Images) = Len(args.points)
    /\ \A i \in DOMAIN args.points : IsImage(args.points[i], Images[i])
    /\ \E e \in DOMAIN res.plot :
           /\ res.plot[e].data.label = "Original"
           /\ res.plot[e].data.coords = [i \in DOMAIN args.points |->
                                            <<args.points[i].x, args.points[i].y>>]

\* The arguments of apply_affine are a 3x3 matrix that sends no input point
\* to a zero homogeneous coordinate.
AffineDefined ==
    /\ TwoDimensional(args.matrix)
    /\ Shape(args.matrix) = <<3, 3>>
    /\ \A i \in DOMAIN args.points : Homogeneous(args.matrix, 3, args.points[i]) # R(0)

\* C24: apply_translation, apply_rotation, apply_scaling, apply_reflection and
\* apply_affine return a payload sequence as long as the input sequence whose
\* i-th element is the image of the i-th input point, with an "Original" plot
\* element listing the input points in the same order.
C24_OrderPreserved ==
    (op \in TransformOps /\ (op = "apply_affine" => AffineDefined)) => OrderPreserved

\* What C24 states, for mirrors that are not vertical and, for apply_affine,
\* point sequences that are not empty.
OrderPreservedWhenReturned ==
    /\ (op \in TransformOps /\ (op = "apply_affine" => AffineDefined)
          /\ (op = "apply_reflection" => ~IsVertical(args.line))
          /\ (op = "apply_affine" => Len(args.points) > 0))
          => OrderPreserved
    /\ (op = "apply_reflection" /\ IsVertical(args.line))
          => (IsRaised(res) /\ res.exc = "ValueError")
    /\ (op = "apply_affine" /\ Len(args.points) = 0)
          => (IsRaised(res) /\ res.exc = "ValueError")

\* C25: apply_affine raises the dimension error unless the matrix is 3x3; for
\* a 3x3 matrix every point (x, y) goes to (X/W, Y/W) with (X, Y, W) =
\* M*(x, y, 1), and no status "ok" result holds a coordinate that was divided
\* by W = 0.
C25_Affine ==
    op = "apply_affine"
        => IF ~(TwoDimensional(args.matrix) /\ Shape(args.matrix) = <<3, 3>>)
           THEN IsRaised(res) /\ res.exc = "ValueError"
           ELSE /\ ~IsRaised(res)
                    => \A i \in DOMAIN args.points :
                           Homogeneous(args.matrix, 3, args.points[i]) # R(0)
                               => IsImage(args.points[i], res.payload.transformed[i])
                /\ res.status = "ok"
                    => \A i \in DOMAIN args.points :
                           /\ Homogeneous(args.matrix, 3, args.points[i]) # R(0)
                           /\ IsFinite(res.payload.transformed[i][1])
                           /\ IsFinite(res.payload.transformed[i][2])

\* What C25 states, without the guard: the dimension error, and (X/W, Y/W) for
\* every point with W # 0; a point with W = 0 gets non-finite coordinates in
\* a status "ok" result.
AffineUnguarded ==
    op = "apply_affine"
        => IF ~(TwoDimensional(args.matrix) /\ Shape(args.matrix) = <<3, 3>>)
           THEN IsRaised(res) /\ res.exc = "ValueError"
           ELSE ~IsRaised(res)
                    => /\ res.status = "ok"
                       /\ \A i \in DOMAIN args.points :
                              IF Homogeneous(args.matrix, 3, args.points[i]) # R(0)
                              THEN IsImage(args.points[i], res.payload.transformed[i])
                              ELSE res.payload.transformed[i] = <<NonFinite, NonFinite>>

----------------------------------------------------------------------------
\* C26: a returned ComputationResult has a status among ok, warning and error
\* and an op name; with status "error" its payload has the one key "message",
\* with status "warning" it has a warning tag, with status "ok" it has none.
C26_ResultContract ==
    ReturnedResult
        => /\ res.status \in {"ok", "warning", "error"}
           /\ res.op # ""
           /\ res.status = "error" => DOMAIN res.payload = {"message"}
           /\ res.status = "warning" => res.warnings # {}
           /\ res.status = "ok" => res.warnings = {}

\* What C26 states, for every result whose payload holds no nan.
ResultContractWithoutNan ==
    (ReturnedResult /\ ~(op = "verify_identity" /\ res.payload.max_error = NonFinite))
        => /\ res.status \in {"ok", "warning", "error"}
           /\ res.op # ""
           /\ res.status = "error" => DOMAIN res.payload = {"message"}
           /\ res.status = "warning" => res.warnings # {}
           /\ res.status = "ok" => res.warnings = {}

-----------------------------------------------------------------------------
\* The type tags of the plot elements.
PlotTypes ==
    {"point", "points", "segment", "line", "circle", "curve", "area", "vector",
     "polygon", "angle", "lines"}

\* The keys the handler of each type reads unconditionally.
HandlerKeys(type) ==
    CASE type \in {"point", "points"} -> {"coords"}
      [] type \in {"segment", "line"} -> {"from", "to"}
      [] type = "circle" -> {"center", "radius"}
      [] type \in {"curve", "area", "vector", "lines"} -> {"points"}
      [] type = "polygon" -> {"vertices"}
      [] OTHER -> {}

\* The element has a type the renderer handles and the keys its handler reads.
Renderable(element) ==
    /\ element.type \in PlotTypes
    /\ element.type \in DOMAIN _HANDLERS
    /\ _HANDLERS[element.type] = HandlerKeys(element.type)
    /\ HandlerKeys(element.type) \subseteq DOMAIN element.data

\* The elements of the rendered sequence that have a handler.
Handled ==
    SelectSeq(args.elements, LAMBDA e : e.type \in DOMAIN _HANDLERS)

UnhandledSkipped ==
    op = "build_figure" /\ ~IsRaised(res)
        => Len(res.payload.traces)
               = Len(SelectSeq(Handled,
                               LAMBDA e : e.type # "angle"
                                          \/ "vertex" \in DOMAIN e.data))

-----------------------------------------------------------------------------
\* The squared length of the segment from p to q.
SquaredLength(p, q) == RAdd(RSq(RSub(q.x, p.x)), RSq(RSub(q.y, p.y)))

\* The returned distance is the root of the squared length of the segment.
IsDistance(d, p, q) ==
    /\ d # NonFinite
    /\ RLeq(R(0), d)
    /\ RSq(d) = SquaredLength(p, q)

\* m is the point halfway from p to q.
IsMidpoint(m, p, q) ==
    /\ m.x # NonFinite /\ m.y # NonFinite
    /\ RAdd(m.x, m.x) = RAdd(p.x, q.x)
    /\ RAdd(m.y, m.y) = RAdd(p.y, q.y)
    /\ RSub(m.x, p.x) = RSub(q.x, m.x)
    /\ RSub(m.y, p.y) = RSub(q.y, m.y)
    /\ SquaredLength(m, p) = SquaredLength(m, q)

\* C28: distance(A, B) returns status "ok" with sqrt((Bx - Ax)^2 + (By - Ay)^2),
\* the same as distance(B, A), 5 for (1, 2) and (4, 6); midpoint(A, B) returns
\* status "ok" with ((Ax + Bx)/2, (Ay + By)/2), on the segment and equidistant
\* from A and B.
C28_DistanceMidpoint ==
    /\ op = "distance"
           => /\ res.status = "ok"
              /\ IsDistance(res.payload.distance, args.a, args.b)
              /\ res.payload = distance(args.b, args.a).payload
              /\ <<args.a, args.b>> = DistanceTestPair
                     => res.payload.distance = R(5)
    /\ op = "midpoint"
           => /\ res.status = "ok"
              /\ IsMidpoint(res.payload.midpoint, args.a, args.b)

\* The coordinates differ by a float whose square is a float, and add up to
\* a float.
SegmentInRange ==
    /\ RLeq(SquaredLength(args.a, args.b), FloatMax)
    /\ RLeq(RAbs(RAdd(args.a.x, args.b.x)), FloatMax)
    /\ RLeq(RAbs(RAdd(args.a.y, args.b.y)), FloatMax)

\* Within the range of the floats the two operations return what C28 states.
DistanceMidpointInRange ==
    op \in {"distance", "midpoint"} /\ SegmentInRange => C28_DistanceMidpoint

\* distance raises OverflowError exactly when a coordinate difference is a
\* float whose square is none.
DistanceRaises ==
    op = "distance"
        => (IsRaised(res)
              <=> \E d \in {RSub(args.b.x, args.a.x), RSub(args.b.y, args.a.y)} :
                      RLeq(RAbs(d), FloatMax) /\ RLt(FloatMax, RSq(d)))

-----------------------------------------------------------------------------
\* The value of A*x + B*y + C of the returned line at the point <<x, y>>.
LineAt(l, x, y) == RAdd(RAdd(RMul(l.A, x), RMul(l.B, y)), l.C)

\* The returned line passes through the midpoint of the segment.
ThroughMidpoint(l, a, b) ==
    RAdd(LineAt(l, a.x, a.y), LineAt(l, b.x, b.y)) = R(0)

\* The normal (A, B) of the returned line is parallel to the segment, so the
\* line is perpendicular to it.
PerpendicularTo(l, a, b) ==
    RSub(RMul(l.A, RSub(b.y, a.y)), RMul(l.B, RSub(b.x, a.x))) = R(0)

\* The two points of the returned line that are drawn are equidistant.
SamplesEquidistant(plotted, a, b) ==
    \A p \in {plotted.data.from, plotted.data.to} :
        Dist2(Point(p[1], p[2], ""), a) = Dist2(Point(p[1], p[2], ""), b)

\* C29: for distinct a and b perpendicular_bisector returns status "ok" with
\* a line through the midpoint of ab and perpendicular to ab, whose points
\* are equidistant from a and b; for a = b it raises the ValueError of
\* Line.from_general.
C29_PerpendicularBisector ==
    op = "perpendicular_bisector"
        => IF as_tuple(args.a) = as_tuple(args.b)
           THEN IsRaised(res) /\ res.exc = "ValueError"
           ELSE /\ res.status = "ok"
                /\ ThroughMidpoint(res.payload.line, args.a, args.b)
                /\ PerpendicularTo(res.payload.line, args.a, args.b)
                /\ SamplesEquidistant(res.plot[2], args.a, args.b)

\* The returned line passes through a and through b: it is the line of the
\* segment itself.
BisectorAlongSegment ==
    op = "perpendicular_bisector" /\ res.status = "ok"
        => /\ ThroughMidpoint(res.payload.line, args.a, args.b)
           /\ LineAt(res.payload.line, args.a.x, args.a.y) = R(0)
           /\ LineAt(res.payload.line, args.b.x, args.b.y) = R(0)

\* The call raises exactly when both coordinate differences are within EPS,
\* and returns status "ok" otherwise.
BisectorRaises ==
    op = "perpendicular_bisector"
        => IF /\ WithinEps(RSub(args.b.x, args.a.x))
              /\ WithinEps(RSub(args.b.y, args.a.y))
           THEN IsRaised(res) /\ res.exc = "ValueError"
           ELSE res.status = "ok"

-----------------------------------------------------------------------------
\* The four points of the circle on the axes through its center.
AxisPointsOf(center, radius) ==
    {Point(RAdd(center[1], radius), center[2], ""),
     Point(RSub(center[1], radius), center[2], ""),
     Point(center[1], RAdd(center[2], radius), ""),
     Point(center[1], RSub(center[2], radius), "")}

\* |PA| : |PB| = m : n, on the squares.
InRatio(p, a, b, ratio) ==
    RMul(RSq(ratio[2]), Dist2(p, a)) = RMul(RSq(ratio[1]), Dist2(p, b))

\* C30: for distinct A and B and m, n > 0 with m # n apollonius_circle returns
\* status "ok" with a radius > 0 and a circle whose points P satisfy
\* |PA| : |PB| = m : n; a ratio with m <= 0 or n <= 0 gives status "error"
\* with only a message in the payload.
C30_Apollonius ==
    op = "apollonius_circle"
        => IF RLeq(args.ratio[1], R(0)) \/ RLeq(args.ratio[2], R(0))
           THEN res.status = "error" /\ DOMAIN res.payload = {"message"}
           ELSE as_tuple(args.a) # as_tuple(args.b) /\ args.ratio[1] # args.ratio[2]
                    => /\ res.status = "ok"
                       /\ RLt(R(0), res.payload.radius)
                       /\ \A p \in AxisPointsOf(res.payload.center, res.payload.radius) :
                              InRatio(p, args.a, args.b, args.ratio)

\* What the call returns: "error" with only a message for a ratio part that
\* is not positive, and otherwise "ok" with the circle around the point
\* dividing AB internally that passes through B.
ApolloniusThroughB ==
    op = "apollonius_circle"
        => IF RLeq(args.ratio[1], R(0)) \/ RLeq(args.ratio[2], R(0))
           THEN res.status = "error" /\ DOMAIN res.payload = {"message"}
           ELSE /\ res.status = "ok"
                /\ RLeq(R(0), res.payload.radius)
                /\ Dist2(Point(res.payload.center[1], res.payload.center[2], ""),
                         args.b) = RSq(res.payload.radius)

====
